---- MODULE Spec2Model ----
(***************************************************************************)
(* State-machine model of the StoryBoard AI component                      *)
(* (src/src/app.component.ts, final revision, lines 456-1067) and of the   *)
(* external services it awaits (src/src/services/gemini.service.ts).       *)
(*                                                                         *)
(* JavaScript runs the handlers on one thread: a synchronous handler is    *)
(* one action; an async handler is one action per stretch of code between  *)
(* two awaits.  An invocation that is suspended at an await is a record in *)
(* `tasks`, holding what the closure captured (the `scene` argument is a   *)
(* reference to an object of the list as it was when the handler was       *)
(* called; the code never mutates scene objects in place, it replaces      *)
(* them, so the captured reference is a captured value).                   *)
(***************************************************************************)
EXTENDS Integers, Sequences, FiniteSets, TLC

VARIABLES
  scriptText,           \* signal scriptText
  scenes,               \* signal scenes: sequence of Scene (or undefined holes)
  isAnalyzing,          \* signal isAnalyzing
  selectedAspectRatio,  \* signal selectedAspectRatio
  selectedResolution,   \* signal selectedResolution
  chatInput,            \* signal chatInput
  chatMessages,         \* signal chatMessages
  isChatSending,        \* signal isChatSending
  notification,         \* signal notification
  draggedIndex,         \* signal draggedIndex
  dragOverIndex,        \* signal dragOverIndex
  projectHistory,       \* signal projectHistory: sequence of ProjectSnapshot
  isHistoryOpen,        \* signal isHistoryOpen
  localStorage,         \* the blob under the key STORYBOARD_AI_DATA, or NoBlob
  tasks,                \* async invocations suspended at an await
  uuid,                 \* source of crypto.randomUUID() / Date.now()
  origin,               \* history variable: per scene, <<prompt, image>> when its promptHistory was last empty
  captured,             \* history variable: snapshot id -> live project state when it was created
  steps,                \* history variable: state-changing operations run so far (Spec, DragSpec)
  sceneGroups,          \* the ordered SceneGroups of the grouped design (spec.md, sections 3 and 4.1)
  preSplit,             \* history variable: the groups before the latest split, and where it cut
  stale                 \* history variable: per suspended invocation, whether the scene list was replaced since it started

vars == <<scriptText, scenes, isAnalyzing, selectedAspectRatio, selectedResolution,
          chatInput, chatMessages, isChatSending, notification, draggedIndex,
          dragOverIndex, projectHistory, isHistoryOpen, localStorage, tasks, uuid,
          origin, captured, steps, sceneGroups, preSplit, stale>>

projectVars == <<scriptText, selectedAspectRatio, selectedResolution>>
chatVars == <<chatInput, chatMessages, isChatSending>>
dragVars == <<draggedIndex, dragOverIndex>>
storeVars == <<projectHistory, localStorage, uuid>>
auxVars == <<origin, captured, steps, stale>>
groupVars == <<sceneGroups, preSplit>>

\* The program's own state: the actions below constrain these, and a
\* specification adds what becomes of the history variables.
progVars == <<scriptText, scenes, isAnalyzing, selectedAspectRatio, selectedResolution,
              chatInput, chatMessages, isChatSending, notification, draggedIndex,
              dragOverIndex, projectHistory, isHistoryOpen, localStorage, tasks, uuid>>

-----------------------------------------------------------------------------
(* Bounds of the model *)

MaxScenes == 3      \* longest scene list the analysis service returns
GenScenes == 2      \* length of the scene list GenSpec starts from
MaxSteps == 5       \* state-changing operations Spec runs from construction
MaxHist == 2        \* longest promptHistory a started operation may extend
MaxTasks == 2       \* async invocations in flight at once
MaxUuid == 2        \* snapshots created in one run
MaxSnap == 2        \* longest snapshot history

-----------------------------------------------------------------------------
(* Values *)

Null == -1                     \* null of the index signals (indices are >= 0)
NoNotification == "null"       \* null of the notification signal
Undef == "undefined"           \* undefined of an optional string field
NoImage == <<>>                \* undefined imageUrl
NoBlob == [absent |-> TRUE]    \* localStorage.getItem returns null
BadJson == [invalid |-> TRUE]  \* a stored string JSON.parse throws on, or the JSON of null
Hole == [undefined |-> TRUE]   \* an undefined element of the scenes array
NullEntry == [null |-> TRUE]   \* a null element of the scenes array, as JSON writes undefined

\* The data URL returned by generateImage for a prompt (the image is tagged by
\* the prompt it was rendered from).
Img(prompt) == <<"img", prompt>>

AnalysedPrompt == "p0"
EnhancedPrompts == {"e1"}
TypedPrompts == {"u1"}
RegeneratedPrompts == {"r1"}
ScriptInputs == {"", "A", "B"}
AspectRatioInputs == {"16:9", "1:1"}
ResolutionInputs == {"2K", "4K"}
AutoSaveName == <<"Auto-save: Before Analysis">>
DefaultSnapshotName(sceneCount) == <<"Snapshot: ", sceneCount, " Scenes">>

\* What the script-analysis service returns for one scene.
RawScene(n) == [sceneNumber |-> n, description |-> "d0", visualPrompt |-> AnalysedPrompt]

\* The lists the analysis service may return (JSON array, possibly empty).
AnalysisResults == {[i \in 1..n |-> RawScene(i)] : n \in 0..MaxScenes}

\* What the text model answers to an enhancement request: an enhanced prompt,
\* the prompt unchanged, or a failure of the call.
ServiceError == "error"
EnhanceResponses(originalPrompt) == EnhancedPrompts \cup {originalPrompt, ServiceError}

\* An enhancement service that answers a failed call with an empty prompt.
enhancePromptOrEmpty(originalPrompt, response) ==
  IF response = ServiceError THEN "" ELSE response

\* GeminiService.enhancePrompt: never rejects, on any failure of the call it
\* returns the original prompt.
enhancePrompt(originalPrompt, response) ==
  IF response = ServiceError THEN originalPrompt ELSE response

\* The prompts an await of enhancePrompt(originalPrompt) may resolve with.
EnhanceResults(originalPrompt) ==
  {enhancePrompt(originalPrompt, response) : response \in EnhanceResponses(originalPrompt)}

RegenerateResults == {[description |-> "d1", visualPrompt |-> p] : p \in RegeneratedPrompts}

\* Messages of the errors generateImage rejects with (Undef: no message).
FailureMessages == {"429 quota", "blocked: safety", "429 safety", "No image generated", Undef}
Includes(message, sub) ==
  CASE sub = "429" -> message \in {"429 quota", "429 safety"}
    [] sub = "safety" -> message \in {"blocked: safety", "429 safety"}
    [] OTHER -> FALSE

-----------------------------------------------------------------------------
(* Helpers on sequences and records *)

\* an element of the scenes array that is no scene object
IsHole(s) == s = Hole \/ s = NullEntry
HasHole(list) == \E i \in DOMAIN list : IsHole(list[i])

Front(s) == SubSeq(s, 1, Len(s) - 1)
Last(s) == s[Len(s)]

\* { ...s, ...updates }
Spread(s, updates) ==
  [f \in DOMAIN s \cup DOMAIN updates |-> IF f \in DOMAIN updates THEN updates[f] ELSE s[f]]

\* Array.prototype.splice(index, 1): <<removed elements, remaining array>>
SpliceOut(list, index) ==
  IF index + 1 \in DOMAIN list
    THEN <<<<list[index + 1]>>, SubSeq(list, 1, index) \o SubSeq(list, index + 2, Len(list))>>
    ELSE <<<<>>, list>>

\* Array.prototype.splice(index, 0, item); an index past the end appends.
SpliceIn(list, index, item) ==
  LET at == IF index > Len(list) THEN Len(list) ELSE index
  IN  SubSeq(list, 1, at) \o <<item>> \o SubSeq(list, at + 1, Len(list))

\* JSON.parse(JSON.stringify(x)) of a scene: own properties are copied; a property
\* whose value is undefined is dropped and reads as undefined afterwards.
JsonScene(s) ==
  IF IsHole(s) THEN NullEntry   \* undefined in an array is written as null
  ELSE [sceneNumber |-> s.sceneNumber, description |-> s.description,
        visualPrompt |-> s.visualPrompt, imageUrl |-> s.imageUrl,
        isGenerating |-> s.isGenerating, isRegeneratingText |-> s.isRegeneratingText,
        isEnhancingPrompt |-> s.isEnhancingPrompt, statusMessage |-> s.statusMessage,
        errorMessage |-> s.errorMessage,
        promptHistory |-> [k \in DOMAIN s.promptHistory |->
                             [prompt |-> s.promptHistory[k].prompt,
                              imageUrl |-> s.promptHistory[k].imageUrl]],
        progress |-> s.progress]

JsonScenes(list) == [i \in DOMAIN list |-> JsonScene(list[i])]

-----------------------------------------------------------------------------
(* Scene state *)

\* analyzeScript's result.map: a fresh Scene from a raw analysed scene.
NewScene(raw) ==
  Spread(raw, [imageUrl |-> NoImage, isGenerating |-> FALSE, isRegeneratingText |-> FALSE,
               isEnhancingPrompt |-> FALSE, statusMessage |-> "", errorMessage |-> Undef,
               promptHistory |-> <<>>, progress |-> 0])

NewScenes(result) == [i \in DOMAIN result |-> NewScene(result[i])]

\* updateSceneState: every scene of the list whose sceneNumber matches is replaced.
\* (Reading s.sceneNumber of an undefined element throws; see Throws.)
updateSceneState(list, sceneNumber, updates) ==
  [i \in DOMAIN list |->
     IF list[i].sceneNumber = sceneNumber THEN Spread(list[i], updates) ELSE list[i]]

\* updateSceneState throws a TypeError when the list holds an undefined element.
Throws(list) == HasHole(list)

HistoryItem(scene) == [prompt |-> scene.visualPrompt, imageUrl |-> scene.imageUrl]

\* showNotification(message)
showNotification(message) == notification' = message

-----------------------------------------------------------------------------
(* Async invocations suspended at an await *)

\* generateImageForScene(scene) awaiting enhancePrompt (pc = "enhance") or
\* generateImage (pc = "render").  rest: when generateAllImages awaits this call, the
\* scenes of its captured list it has not yet visited.
GenTask(scene, pc, enhanced, sweep, rest) ==
  [kind |-> "gen", scene |-> scene, pc |-> pc, enhanced |-> enhanced,
   sweep |-> sweep, rest |-> rest]
RegenTask(scene) == [kind |-> "regen", scene |-> scene]
EnhanceTask(scene) == [kind |-> "enhance", scene |-> scene]
AnalyzeTask == [kind |-> "analyze"]

RemoveAt(list, k) == SubSeq(list, 1, k - 1) \o SubSeq(list, k + 1, Len(list))

\* The updates generateImageForScene makes before its first await.
GenStartUpdates ==
  [isGenerating |-> TRUE, statusMessage |-> "Enhancing prompt...", progress |-> 10,
   errorMessage |-> Undef]

\* generateAllImages' loop over what is left of its captured list: the first scene
\* with no imageUrl and isGenerating false (as captured) gets generateImageForScene
\* called and awaited.  Result: the new scenes list and the suspended call, if any.
\* Reading a property of an undefined element, or updateSceneState on a list with
\* one, throws: the sweep's promise rejects and nothing more happens.
\* A sweep that does not await the workflow of a scene before it moves on to
\* the next: every eligible scene of the list is started at once.
RECURSIVE SweepFromNoAwait(_, _)
SweepFromNoAwait(list, rest) ==
  IF rest = <<>> THEN [scenes |-> list, started |-> <<>>]
  ELSE LET scene == Head(rest) IN
       IF IsHole(scene) \/ Throws(list) THEN [scenes |-> list, started |-> <<>>]
       ELSE IF scene.imageUrl = NoImage /\ ~scene.isGenerating
         THEN LET r == SweepFromNoAwait(
                         updateSceneState(list, scene.sceneNumber, GenStartUpdates), Tail(rest))
              IN  [scenes |-> r.scenes,
                   started |-> <<GenTask(scene, "enhance", "", TRUE, <<>>)>> \o r.started]
         ELSE SweepFromNoAwait(list, Tail(rest))

RECURSIVE SweepFrom(_, _)
SweepFrom(list, rest) ==
  IF rest = <<>> THEN [scenes |-> list, started |-> <<>>]
  ELSE LET scene == Head(rest) IN
    IF IsHole(scene) THEN [scenes |-> list, started |-> <<>>]
    ELSE IF scene.imageUrl = NoImage /\ ~scene.isGenerating
      THEN IF Throws(list) THEN [scenes |-> list, started |-> <<>>]
           ELSE [scenes |-> updateSceneState(list, scene.sceneNumber, GenStartUpdates),
                 started |-> <<GenTask(scene, "enhance", "", TRUE, Tail(rest))>>]
      ELSE SweepFrom(list, Tail(rest))

\* What follows the end of generateImageForScene: its caller's loop, if a sweep awaits it.
Continue(list, t) ==
  IF t.sweep THEN SweepFrom(list, t.rest) ELSE [scenes |-> list, started |-> <<>>]

-----------------------------------------------------------------------------
(* Per-scene operations.  A user action passes the scene rendered at index i of
   the live list. *)

Rendered(i) == i \in DOMAIN scenes /\ ~IsHole(scenes[i])

\* generateImageForScene(scene), up to its first await
generateImageForScene(i) ==
  /\ Rendered(i)
  /\ LET scene == scenes[i] IN
     IF scene.isGenerating \/ Throws(scenes)
     THEN UNCHANGED progVars
     ELSE /\ Len(tasks) < MaxTasks
          /\ Len(scene.promptHistory) < MaxHist
          /\ scenes' = updateSceneState(scenes, scene.sceneNumber, GenStartUpdates)
          /\ tasks' = Append(tasks, GenTask(scene, "enhance", "", FALSE, <<>>))
          /\ UNCHANGED <<projectVars, isAnalyzing, chatVars, notification, dragVars,
                         storeVars, isHistoryOpen>>

\* generateAllImages(), up to its first await
generateAllImages ==
  /\ Len(tasks) < MaxTasks
  /\ \A i \in DOMAIN scenes : ~IsHole(scenes[i]) => Len(scenes[i].promptHistory) < MaxHist
  /\ LET r == SweepFrom(scenes, scenes) IN
       /\ scenes' = r.scenes
       /\ tasks' = tasks \o r.started
  /\ UNCHANGED <<projectVars, isAnalyzing, chatVars, notification, dragVars,
                 storeVars, isHistoryOpen>>

\* generateImageForScene, from the return of enhancePrompt to the call of generateImage
EnhancementStep(list, t, enhancedPrompt) ==
  LET scene == t.scene
      afterPrepare == updateSceneState(list, scene.sceneNumber,
                        [progress |-> 40, statusMessage |-> "Preparing render..."])
      historyUpdate ==
        IF enhancedPrompt # scene.visualPrompt
          THEN [promptHistory |-> Append(scene.promptHistory, HistoryItem(scene))]
          ELSE <<>>
  IN  updateSceneState(afterPrepare, scene.sceneNumber,
        Spread([visualPrompt |-> enhancedPrompt, statusMessage |-> "Rendering image...",
                progress |-> 60], historyUpdate))

GenEnhanced(k) ==
  /\ k \in DOMAIN tasks
  /\ tasks[k].kind = "gen" /\ tasks[k].pc = "enhance"
  /\ LET t == tasks[k] IN
     \E enhancedPrompt \in EnhanceResults(t.scene.visualPrompt) :
       IF Throws(scenes)
       THEN \* the try block throws, the catch block throws again: the promise rejects
            /\ tasks' = RemoveAt(tasks, k)
            /\ UNCHANGED scenes
       ELSE /\ scenes' = EnhancementStep(scenes, t, enhancedPrompt)
            /\ tasks' = [tasks EXCEPT ![k] = GenTask(t.scene, "render", enhancedPrompt, t.sweep, t.rest)]
  /\ UNCHANGED <<projectVars, isAnalyzing, chatVars, notification, dragVars,
                 storeVars, isHistoryOpen>>

\* generateImageForScene, after generateImage resolved
ImageUpdates(t) ==
  [imageUrl |-> Img(t.enhanced), isGenerating |-> FALSE, statusMessage |-> Undef,
   progress |-> 100]

GenRendered(k) ==
  /\ k \in DOMAIN tasks
  /\ tasks[k].kind = "gen" /\ tasks[k].pc = "render"
  /\ LET t == tasks[k] IN
       IF Throws(scenes)
       THEN /\ tasks' = RemoveAt(tasks, k)
            /\ UNCHANGED scenes
       ELSE LET r == Continue(updateSceneState(scenes, t.scene.sceneNumber, ImageUpdates(t)), t)
            IN  /\ scenes' = r.scenes
                /\ tasks' = RemoveAt(tasks, k) \o r.started
  /\ UNCHANGED <<projectVars, isAnalyzing, chatVars, notification, dragVars,
                 storeVars, isHistoryOpen>>

\* A classification that looks for "safety" before it looks for "429".
FriendlyErrorSafetyFirst(message) ==
  IF message # Undef /\ Includes(message, "safety")
    THEN "Generation blocked by safety settings. Try a different prompt."
  ELSE IF message # Undef /\ Includes(message, "429")
    THEN "Usage limit exceeded. Please wait a moment."
  ELSE "Connection interrupted. Please retry."

\* The catch block's classification of the error
FriendlyError(message) ==
  IF message # Undef /\ Includes(message, "429")
    THEN "Usage limit exceeded. Please wait a moment."
  ELSE IF message # Undef /\ Includes(message, "safety")
    THEN "Generation blocked by safety settings. Try a different prompt."
  ELSE "Connection interrupted. Please retry."

\* A failure update that also drops the image the scene had.
FailureUpdatesClearingImage(message) ==
  [isGenerating |-> FALSE, statusMessage |-> "Failed",
   errorMessage |-> FriendlyError(message), progress |-> 0, imageUrl |-> NoImage]

FailureUpdates(message) ==
  [isGenerating |-> FALSE, statusMessage |-> "Failed",
   errorMessage |-> FriendlyError(message), progress |-> 0]

\* generateImageForScene, after generateImage rejected
GenFailed(k, message) ==
  /\ k \in DOMAIN tasks
  /\ tasks[k].kind = "gen" /\ tasks[k].pc = "render"
  /\ LET t == tasks[k] IN
       IF Throws(scenes)
       THEN /\ tasks' = RemoveAt(tasks, k)
            /\ UNCHANGED scenes
       ELSE LET r == Continue(updateSceneState(scenes, t.scene.sceneNumber, FailureUpdates(message)), t)
            IN  /\ scenes' = r.scenes
                /\ tasks' = RemoveAt(tasks, k) \o r.started
  /\ UNCHANGED <<projectVars, isAnalyzing, chatVars, notification, dragVars,
                 storeVars, isHistoryOpen>>

\* regenerateSceneText(scene), up to its await
regenerateSceneText(i) ==
  /\ Rendered(i)
  /\ LET scene == scenes[i] IN
     IF scene.isRegeneratingText \/ scriptText = "" \/ Throws(scenes)
     THEN UNCHANGED progVars
     ELSE /\ Len(tasks) < MaxTasks
          /\ Len(scene.promptHistory) < MaxHist
          /\ scenes' = updateSceneState(scenes, scene.sceneNumber,
                         [isRegeneratingText |-> TRUE, errorMessage |-> Undef])
          /\ tasks' = Append(tasks, RegenTask(scene))
          /\ UNCHANGED <<projectVars, isAnalyzing, chatVars, notification, dragVars,
                         storeVars, isHistoryOpen>>

RegeneratedUpdates(scene, result) ==
  [description |-> result.description, visualPrompt |-> result.visualPrompt,
   imageUrl |-> NoImage, isRegeneratingText |-> FALSE,
   promptHistory |-> Append(scene.promptHistory, HistoryItem(scene))]

\* regenerateSceneText, after regenerateScene resolved
RegenDone(k) ==
  /\ k \in DOMAIN tasks
  /\ tasks[k].kind = "regen"
  /\ \E result \in RegenerateResults :
       scenes' = IF Throws(scenes) THEN scenes
                 ELSE updateSceneState(scenes, tasks[k].scene.sceneNumber,
                                       RegeneratedUpdates(tasks[k].scene, result))
  /\ tasks' = RemoveAt(tasks, k)
  /\ UNCHANGED <<projectVars, isAnalyzing, chatVars, notification, dragVars,
                 storeVars, isHistoryOpen>>

\* regenerateSceneText, after regenerateScene rejected
RegenFailed(k) ==
  /\ k \in DOMAIN tasks
  /\ tasks[k].kind = "regen"
  /\ scenes' = IF Throws(scenes) THEN scenes
               ELSE updateSceneState(scenes, tasks[k].scene.sceneNumber,
                      [isRegeneratingText |-> FALSE,
                       errorMessage |-> "Text generation failed. Please try again."])
  /\ tasks' = RemoveAt(tasks, k)
  /\ UNCHANGED <<projectVars, isAnalyzing, chatVars, notification, dragVars,
                 storeVars, isHistoryOpen>>

\* updateScenePrompt(scene, event)
PromptUpdates(scene, newPrompt) ==
  [visualPrompt |-> newPrompt, imageUrl |-> NoImage,
   promptHistory |-> Append(scene.promptHistory, HistoryItem(scene))]

updateScenePrompt(i, newPrompt) ==
  /\ Rendered(i)
  /\ LET scene == scenes[i] IN
     IF scene.visualPrompt = newPrompt \/ Throws(scenes)
     THEN UNCHANGED progVars
     ELSE /\ Len(scene.promptHistory) < MaxHist
          /\ scenes' = updateSceneState(scenes, scene.sceneNumber, PromptUpdates(scene, newPrompt))
          /\ UNCHANGED <<projectVars, isAnalyzing, chatVars, notification, dragVars,
                         storeVars, isHistoryOpen, tasks>>

\* enhancePromptForScene(scene), up to its await
enhancePromptForScene(i) ==
  /\ Rendered(i)
  /\ LET scene == scenes[i] IN
     IF scene.isEnhancingPrompt \/ scene.isGenerating \/ Throws(scenes)
     THEN UNCHANGED progVars
     ELSE /\ Len(tasks) < MaxTasks
          /\ Len(scene.promptHistory) < MaxHist
          /\ scenes' = updateSceneState(scenes, scene.sceneNumber,
                         [isEnhancingPrompt |-> TRUE, errorMessage |-> Undef])
          /\ tasks' = Append(tasks, EnhanceTask(scene))
          /\ UNCHANGED <<projectVars, isAnalyzing, chatVars, notification, dragVars,
                         storeVars, isHistoryOpen>>

EnhancedUpdates(scene, enhancedPrompt) ==
  IF enhancedPrompt # scene.visualPrompt
    THEN [visualPrompt |-> enhancedPrompt, isEnhancingPrompt |-> FALSE,
          promptHistory |-> Append(scene.promptHistory, HistoryItem(scene))]
    ELSE [isEnhancingPrompt |-> FALSE]

\* enhancePromptForScene, after enhancePrompt resolved (it never rejects)
EnhanceDone(k) ==
  /\ k \in DOMAIN tasks
  /\ tasks[k].kind = "enhance"
  /\ LET scene == tasks[k].scene IN
     \E enhancedPrompt \in EnhanceResults(scene.visualPrompt) :
       IF Throws(scenes)
       THEN UNCHANGED <<scenes, notification>>
       ELSE /\ scenes' = updateSceneState(scenes, scene.sceneNumber,
                                          EnhancedUpdates(scene, enhancedPrompt))
            /\ showNotification(IF enhancedPrompt # scene.visualPrompt
                                  THEN "Prompt enhanced"
                                  ELSE "Prompt is already optimized")
  /\ tasks' = RemoveAt(tasks, k)
  /\ UNCHANGED <<projectVars, isAnalyzing, chatVars, dragVars,
                 storeVars, isHistoryOpen>>

\* A revert that takes the oldest entry of the history instead of the newest.
RevertUpdatesOldest(scene) ==
  [visualPrompt |-> Head(scene.promptHistory).prompt,
   imageUrl |-> Head(scene.promptHistory).imageUrl,
   promptHistory |-> Tail(scene.promptHistory),
   statusMessage |-> Undef, errorMessage |-> Undef, progress |-> 0]

\* revertToPreviousVersion(scene)
RevertUpdates(scene) ==
  [visualPrompt |-> Last(scene.promptHistory).prompt,
   imageUrl |-> Last(scene.promptHistory).imageUrl,
   promptHistory |-> Front(scene.promptHistory),
   statusMessage |-> Undef, errorMessage |-> Undef, progress |-> 0]

\* The scenes list after revertToPreviousVersion(scene)
Reverted(list, scene) ==
  IF scene.promptHistory = <<>> \/ Throws(list) THEN list
  ELSE updateSceneState(list, scene.sceneNumber, RevertUpdates(scene))

revertToPreviousVersion(i) ==
  /\ Rendered(i)
  /\ scenes' = Reverted(scenes, scenes[i])
  /\ UNCHANGED <<projectVars, isAnalyzing, chatVars, notification, dragVars,
                 storeVars, isHistoryOpen, tasks>>

\* The 3 s timer of showNotification
NotificationTimeout ==
  /\ notification # NoNotification
  /\ notification' = NoNotification
  /\ UNCHANGED <<projectVars, scenes, isAnalyzing, chatVars, dragVars, storeVars,
                 isHistoryOpen, tasks>>

-----------------------------------------------------------------------------
(* Script and render configuration *)

\* onScriptInput(event)
onScriptInput(val) ==
  /\ scriptText' = val
  /\ UNCHANGED <<scenes, isAnalyzing, selectedAspectRatio, selectedResolution, chatVars,
                 notification, dragVars, storeVars, isHistoryOpen, tasks>>

\* onAspectRatioChange(event)
onAspectRatioChange(val) ==
  /\ selectedAspectRatio' = val
  /\ UNCHANGED <<scriptText, scenes, isAnalyzing, selectedResolution, chatVars,
                 notification, dragVars, storeVars, isHistoryOpen, tasks>>

\* onResolutionChange(event)
onResolutionChange(val) ==
  /\ selectedResolution' = val
  /\ UNCHANGED <<scriptText, scenes, isAnalyzing, selectedAspectRatio, chatVars,
                 notification, dragVars, storeVars, isHistoryOpen, tasks>>

\* A clearScript that clears the script whatever the dialog's answer.
clearScriptUnasked(confirmed) ==
  /\ scriptText' = ""
  /\ UNCHANGED <<scenes, isAnalyzing, selectedAspectRatio, selectedResolution, chatVars,
                 notification, dragVars, storeVars, isHistoryOpen, tasks>>

\* clearScript(); `confirmed` is the answer to the confirm() dialog, which is
\* only shown when the script is not empty.
clearScript(confirmed) ==
  /\ scriptText' = IF scriptText # "" /\ confirmed THEN "" ELSE scriptText
  /\ UNCHANGED <<scenes, isAnalyzing, selectedAspectRatio, selectedResolution, chatVars,
                 notification, dragVars, storeVars, isHistoryOpen, tasks>>

-----------------------------------------------------------------------------
(* Persistence *)

SaveOutcomes == {"ok", "QuotaExceededError", "Error"}

\* A serialisation of the snapshot list that leaves the scenes out.
JsonHistoryWithoutScenes(history) ==
  [k \in DOMAIN history |->
     [id |-> history[k].id, name |-> history[k].name, timestamp |-> history[k].timestamp,
      data |-> [script |-> history[k].data.script,
                scenes |-> <<>>,
                aspectRatio |-> history[k].data.aspectRatio,
                resolution |-> history[k].data.resolution,
                timestamp |-> history[k].data.timestamp]]]

\* JSON.stringify of a snapshot list, as JSON.parse reads it back
JsonHistory(history) ==
  [k \in DOMAIN history |->
     [id |-> history[k].id, name |-> history[k].name, timestamp |-> history[k].timestamp,
      data |-> [script |-> history[k].data.script,
                scenes |-> JsonScenes(history[k].data.scenes),
                aspectRatio |-> history[k].data.aspectRatio,
                resolution |-> history[k].data.resolution,
                timestamp |-> history[k].data.timestamp]]]

\* JSON.stringify(data) in saveProject, with `history` the value of the
\* projectHistory signal when saveProject runs
SavedData(history) ==
  [script |-> scriptText, scenes |-> JsonScenes(scenes),
   aspectRatio |-> selectedAspectRatio, resolution |-> selectedResolution,
   chatHistory |-> chatMessages, projectHistory |-> JsonHistory(history)]

\* A save that reports success whatever became of the write.
saveProjectUnchecked(outcome, history) ==
  /\ localStorage' = IF outcome = "ok" THEN SavedData(history) ELSE localStorage
  /\ showNotification("Project saved successfully")

\* A save that writes the snapshot history as it was before the running
\* handler updated it.
saveProjectStale(outcome, history) ==
  /\ localStorage' = IF outcome = "ok" THEN SavedData(projectHistory) ELSE localStorage
  /\ showNotification(
       CASE outcome = "ok" -> "Project saved successfully"
         [] outcome = "QuotaExceededError" -> "Error: Project is too large to save (image limit)."
         [] OTHER -> "Failed to save project.")

\* saveProject()'s effect on the store and the notification; outcome is what
\* localStorage.setItem does (returns, or throws an error of that name)
saveProjectWith(outcome, history) ==
  /\ localStorage' = IF outcome = "ok" THEN SavedData(history) ELSE localStorage
  /\ showNotification(
       CASE outcome = "ok" -> "Project saved successfully"
         [] outcome = "QuotaExceededError" -> "Error: Project is too large to save (image limit)."
         [] OTHER -> "Failed to save project.")

saveProject(outcome) ==
  /\ saveProjectWith(outcome, projectHistory)
  /\ UNCHANGED <<projectVars, scenes, isAnalyzing, chatVars, dragVars, projectHistory,
                 uuid, isHistoryOpen, tasks>>

\* if (data.field) for a string field / for an array field of the parsed blob
TruthyString(data, field) == field \in DOMAIN data /\ data[field] # ""
TruthyArray(data, field) == field \in DOMAIN data

\* A loadProject that resets the project when there is nothing it can load.
loadProjectResetting ==
  /\ IF localStorage \in {NoBlob, BadJson}
     THEN /\ showNotification("No saved project found.")
          /\ scriptText' = ""
          /\ scenes' = <<>>
          /\ UNCHANGED <<selectedAspectRatio, selectedResolution, chatMessages, projectHistory>>
     ELSE LET data == localStorage IN
          /\ scriptText' = IF TruthyString(data, "script") THEN data.script ELSE scriptText
          /\ scenes' = IF TruthyArray(data, "scenes") THEN data.scenes ELSE scenes
          /\ selectedAspectRatio' =
               IF TruthyString(data, "aspectRatio") THEN data.aspectRatio ELSE selectedAspectRatio
          /\ selectedResolution' =
               IF TruthyString(data, "resolution") THEN data.resolution ELSE selectedResolution
          /\ chatMessages' =
               IF TruthyArray(data, "chatHistory") THEN data.chatHistory ELSE chatMessages
          /\ projectHistory' =
               IF TruthyArray(data, "projectHistory") THEN data.projectHistory ELSE projectHistory
          /\ showNotification("Project loaded successfully")
  /\ UNCHANGED <<isAnalyzing, chatInput, isChatSending, dragVars, localStorage, uuid,
                 isHistoryOpen, tasks>>

\* loadProject()
loadProject ==
  /\ IF localStorage = NoBlob
     THEN /\ showNotification("No saved project found.")
          /\ UNCHANGED <<projectVars, scenes, chatMessages, projectHistory>>
     ELSE IF localStorage = BadJson
     THEN \* JSON.parse (or the first read of a field of null) throws before any
          \* signal is set; the catch block notifies
          /\ showNotification("Failed to load project data.")
          /\ UNCHANGED <<projectVars, scenes, chatMessages, projectHistory>>
     ELSE LET data == localStorage IN
          /\ scriptText' = IF TruthyString(data, "script") THEN data.script ELSE scriptText
          /\ scenes' = IF TruthyArray(data, "scenes") THEN data.scenes ELSE scenes
          /\ selectedAspectRatio' =
               IF TruthyString(data, "aspectRatio") THEN data.aspectRatio ELSE selectedAspectRatio
          /\ selectedResolution' =
               IF TruthyString(data, "resolution") THEN data.resolution ELSE selectedResolution
          /\ chatMessages' =
               IF TruthyArray(data, "chatHistory") THEN data.chatHistory ELSE chatMessages
          /\ projectHistory' =
               IF TruthyArray(data, "projectHistory") THEN data.projectHistory ELSE projectHistory
          /\ showNotification("Project loaded successfully")
  /\ UNCHANGED <<isAnalyzing, chatInput, isChatSending, dragVars, localStorage, uuid,
                 isHistoryOpen, tasks>>

-----------------------------------------------------------------------------
(* Versioning *)

\* toggleHistory()
toggleHistory ==
  /\ isHistoryOpen' = ~isHistoryOpen
  /\ UNCHANGED <<projectVars, scenes, isAnalyzing, chatVars, notification, dragVars,
                 storeVars, tasks>>

\* A snapshot taken of the scene list after it has been cleared.
NewSnapshotAfterClear(name) ==
  [id |-> uuid + 1, name |-> name, timestamp |-> uuid + 1,
   data |-> [script |-> scriptText, scenes |-> <<>>,
             aspectRatio |-> selectedAspectRatio, resolution |-> selectedResolution,
             timestamp |-> uuid + 1]]

\* The ProjectSnapshot createSnapshot builds (crypto.randomUUID() and Date.now()
\* both drawn from the counter)
NewSnapshot(name) ==
  [id |-> uuid + 1, name |-> name, timestamp |-> uuid + 1,
   data |-> [script |-> scriptText, scenes |-> JsonScenes(scenes),
             aspectRatio |-> selectedAspectRatio, resolution |-> selectedResolution,
             timestamp |-> uuid + 1]]

\* createSnapshot(customName?)'s effect on history, store and notification
createSnapshotWith(name, outcome) ==
  /\ projectHistory' = <<NewSnapshot(name)>> \o projectHistory
  /\ uuid' = uuid + 1
  /\ saveProjectWith(outcome, <<NewSnapshot(name)>> \o projectHistory)

createSnapshot(outcome) ==
  /\ uuid < MaxUuid
  /\ Len(projectHistory) < MaxSnap
  /\ createSnapshotWith(DefaultSnapshotName(Len(scenes)), outcome)
  /\ UNCHANGED <<projectVars, scenes, isAnalyzing, chatVars, dragVars, isHistoryOpen, tasks>>

\* A restore that leaves the aspect ratio and the history view as they are.
restoreSnapshotScenesOnly(k, confirmed) ==
  /\ k \in DOMAIN projectHistory
  /\ IF ~confirmed
     THEN UNCHANGED progVars
     ELSE LET data == projectHistory[k].data IN
          /\ scriptText' = data.script
          /\ scenes' = JsonScenes(data.scenes)
          /\ selectedResolution' = data.resolution
          /\ showNotification("Restored version")
          /\ UNCHANGED <<selectedAspectRatio, isHistoryOpen, isAnalyzing, chatVars, dragVars,
                         storeVars, tasks>>

\* restoreSnapshot(snapshot), on the snapshot listed at position k
restoreSnapshot(k, confirmed) ==
  /\ k \in DOMAIN projectHistory
  /\ IF ~confirmed
     THEN UNCHANGED progVars
     ELSE LET data == projectHistory[k].data IN
          /\ scriptText' = data.script
          /\ scenes' = JsonScenes(data.scenes)
          /\ selectedAspectRatio' = data.aspectRatio
          /\ selectedResolution' = data.resolution
          /\ isHistoryOpen' = FALSE
          /\ showNotification("Restored version")
          /\ UNCHANGED <<isAnalyzing, chatVars, dragVars, storeVars, tasks>>

\* A filter that drops the snapshot with the id and every older one.
RECURSIVE WithoutIdAndOlder(_, _)
WithoutIdAndOlder(history, id) ==
  IF history = <<>> THEN <<>>
  ELSE IF Head(history).id = id THEN <<>>
  ELSE <<Head(history)>> \o WithoutIdAndOlder(Tail(history), id)

\* history.filter(s => s.id !== id)
RECURSIVE WithoutId(_, _)
WithoutId(history, id) ==
  IF history = <<>> THEN <<>>
  ELSE IF Head(history).id = id THEN WithoutId(Tail(history), id)
  ELSE <<Head(history)>> \o WithoutId(Tail(history), id)

\* deleteSnapshot(id, event), on the snapshot listed at position k
deleteSnapshot(k, confirmed, outcome) ==
  /\ k \in DOMAIN projectHistory
  /\ IF ~confirmed
     THEN UNCHANGED progVars
     ELSE /\ projectHistory' = WithoutId(projectHistory, projectHistory[k].id)
          /\ saveProjectWith(outcome, WithoutId(projectHistory, projectHistory[k].id))
          /\ UNCHANGED <<projectVars, scenes, isAnalyzing, chatVars, dragVars, uuid,
                         isHistoryOpen, tasks>>

-----------------------------------------------------------------------------
(* Drag and drop *)

\* onDragStart(event, index): index of a rendered scene
onDragStart(index) ==
  /\ index + 1 \in DOMAIN scenes
  /\ draggedIndex' = index
  /\ UNCHANGED <<projectVars, scenes, isAnalyzing, chatVars, notification, dragOverIndex,
                 storeVars, isHistoryOpen, tasks>>

\* onDragOver(event, index)
onDragOver(index) ==
  /\ index + 1 \in DOMAIN scenes
  /\ dragOverIndex' = IF draggedIndex = Null \/ draggedIndex = index
                        THEN dragOverIndex ELSE index
  /\ UNCHANGED <<projectVars, scenes, isAnalyzing, chatVars, notification, draggedIndex,
                 storeVars, isHistoryOpen, tasks>>

\* reorderScenes(fromIndex, toIndex)
reorderScenes(list, fromIndex, toIndex) ==
  LET cut == SpliceOut(list, fromIndex)
      item == IF cut[1] = <<>> THEN Hole ELSE cut[1][1]
  IN  SpliceIn(cut[2], toIndex, item)

\* onDrop(event, index): index of a rendered scene
onDrop(index) ==
  /\ index + 1 \in DOMAIN scenes
  /\ IF draggedIndex # Null /\ draggedIndex # index
     THEN /\ scenes' = reorderScenes(scenes, draggedIndex, index)
          /\ showNotification("Scene reordered")
     ELSE UNCHANGED <<scenes, notification>>
  /\ draggedIndex' = Null
  /\ dragOverIndex' = Null
  /\ UNCHANGED <<projectVars, isAnalyzing, chatVars, storeVars, isHistoryOpen, tasks>>

\* A drag end that forgets the dragged index and keeps the hovered one.
onDragEndKeepingHover ==
  /\ draggedIndex' = Null
  /\ UNCHANGED <<projectVars, scenes, isAnalyzing, chatVars, notification, dragOverIndex,
                 storeVars, isHistoryOpen, tasks>>

\* onDragEnd(event)
onDragEnd ==
  /\ draggedIndex' = Null
  /\ dragOverIndex' = Null
  /\ UNCHANGED <<projectVars, scenes, isAnalyzing, chatVars, notification, storeVars,
                 isHistoryOpen, tasks>>

-----------------------------------------------------------------------------
(* Script analysis *)

\* analyzeScript(), up to its await
analyzeScript(outcome) ==
  IF scriptText = ""
  THEN UNCHANGED progVars
  ELSE /\ Len(tasks) < MaxTasks
       /\ IF Len(scenes) > 0
          THEN /\ uuid < MaxUuid
               /\ Len(projectHistory) < MaxSnap
               /\ createSnapshotWith(AutoSaveName, outcome)
          ELSE /\ outcome = "ok"
               /\ UNCHANGED <<storeVars, notification>>
       /\ isAnalyzing' = TRUE
       /\ scenes' = <<>>
       /\ tasks' = Append(tasks, AnalyzeTask)
       /\ UNCHANGED <<projectVars, chatVars, dragVars, isHistoryOpen>>

\* analyzeScript, after the analysis service resolved with `result`
AnalyzeDone(k, result) ==
  /\ k \in DOMAIN tasks
  /\ tasks[k].kind = "analyze"
  /\ LET r == SweepFrom(NewScenes(result), NewScenes(result)) IN
       /\ scenes' = r.scenes
       /\ tasks' = RemoveAt(tasks, k) \o r.started
  /\ isAnalyzing' = FALSE
  /\ UNCHANGED <<projectVars, chatVars, notification, dragVars, storeVars, isHistoryOpen>>

\* A failure handler that empties the scene list again.
AnalyzeFailedClearing(k) ==
  /\ k \in DOMAIN tasks
  /\ tasks[k].kind = "analyze"
  /\ tasks' = RemoveAt(tasks, k)
  /\ showNotification("Failed to analyze script. Please check your API key or try again.")
  /\ isAnalyzing' = FALSE
  /\ scenes' = <<>>
  /\ UNCHANGED <<projectVars, chatVars, dragVars, storeVars, isHistoryOpen>>

\* analyzeScript, after the analysis service rejected
AnalyzeFailed(k) ==
  /\ k \in DOMAIN tasks
  /\ tasks[k].kind = "analyze"
  /\ tasks' = RemoveAt(tasks, k)
  /\ showNotification("Failed to analyze script. Please check your API key or try again.")
  /\ isAnalyzing' = FALSE
  /\ UNCHANGED <<projectVars, scenes, chatVars, dragVars, storeVars, isHistoryOpen>>

-----------------------------------------------------------------------------
(* Chat *)

\* What the user types into the chat box, and String.prototype.trim of it
ChatInputs == {"", " ", "hi", " hi "}
Trim(val) ==
  CASE val = " " -> ""
    [] val = " hi " -> "hi"
    [] OTHER -> val

\* What the chat session answers (response.text)
ChatResponses == {"answer"}

\* sendChatMessage() awaiting chatSession.sendMessage
ChatTask(text) == [kind |-> "chat", text |-> text]

\* onChatInput(event)
onChatInput(val) ==
  /\ chatInput' = val
  /\ UNCHANGED <<projectVars, scenes, isAnalyzing, chatMessages, isChatSending, notification,
                 dragVars, storeVars, isHistoryOpen, tasks>>

\* An addBotMessage that puts the message in the place of the last one.
addBotMessageOverLast(msgs, text) ==
  Front(msgs) \o <<[role |-> "model", text |-> text]>>

\* addBotMessage(text): msgs => [...msgs, { role: 'model', text }]
addBotMessage(msgs, text) == Append(msgs, [role |-> "model", text |-> text])

\* A sendChatMessage that does not look at isChatSending.
sendChatMessageUnguarded ==
  LET text == Trim(chatInput) IN
  IF text = ""
  THEN UNCHANGED progVars
  ELSE /\ Len(tasks) < MaxTasks
       /\ chatMessages' = Append(chatMessages, [role |-> "user", text |-> text])
       /\ chatInput' = ""
       /\ isChatSending' = TRUE
       /\ tasks' = Append(tasks, ChatTask(text))
       /\ UNCHANGED <<projectVars, scenes, isAnalyzing, notification, dragVars, storeVars,
                      isHistoryOpen>>

\* sendChatMessage(), up to its await
sendChatMessage ==
  LET text == Trim(chatInput) IN
  IF text = "" \/ isChatSending
  THEN UNCHANGED progVars
  ELSE /\ Len(tasks) < MaxTasks
       /\ chatMessages' = Append(chatMessages, [role |-> "user", text |-> text])
       /\ chatInput' = ""
       /\ isChatSending' = TRUE
       /\ tasks' = Append(tasks, ChatTask(text))
       /\ UNCHANGED <<projectVars, scenes, isAnalyzing, notification, dragVars, storeVars,
                      isHistoryOpen>>

\* sendChatMessage, after sendMessage resolved with `response`
ChatDone(k, response) ==
  /\ k \in DOMAIN tasks
  /\ tasks[k].kind = "chat"
  /\ chatMessages' = addBotMessage(chatMessages, response)
  /\ isChatSending' = FALSE
  /\ tasks' = RemoveAt(tasks, k)
  /\ UNCHANGED <<projectVars, scenes, isAnalyzing, chatInput, notification, dragVars,
                 storeVars, isHistoryOpen>>

\* sendChatMessage, after sendMessage rejected
ChatFailed(k) ==
  /\ k \in DOMAIN tasks
  /\ tasks[k].kind = "chat"
  /\ chatMessages' = addBotMessage(chatMessages, "Sorry, I encountered an error. Please try again.")
  /\ isChatSending' = FALSE
  /\ tasks' = RemoveAt(tasks, k)
  /\ UNCHANGED <<projectVars, scenes, isAnalyzing, chatInput, notification, dragVars,
                 storeVars, isHistoryOpen>>

-----------------------------------------------------------------------------
(* Initial states *)

\* The component after construction.  (The constructor's greeting is the first
\* chat message.)
Greeting == [role |-> "model", text |-> "greeting"]

Constructed ==
  /\ scriptText = ""
  /\ scenes = <<>>
  /\ isAnalyzing = FALSE
  /\ selectedAspectRatio = "16:9"
  /\ selectedResolution = "2K"
  /\ chatInput = ""
  /\ chatMessages = <<Greeting>>
  /\ isChatSending = FALSE
  /\ notification = NoNotification
  /\ draggedIndex = Null
  /\ dragOverIndex = Null
  /\ projectHistory = <<>>
  /\ isHistoryOpen = FALSE
  /\ localStorage = NoBlob
  /\ tasks = <<>>
  /\ uuid = 0

OriginOf(list) ==
  [i \in DOMAIN list |-> IF IsHole(list[i]) THEN <<>>
                         ELSE <<list[i].visualPrompt, list[i].imageUrl>>]

Init ==
  /\ Constructed
  /\ origin = <<>>
  /\ captured = <<>>
  /\ steps = 0
  /\ sceneGroups = <<>>
  /\ preSplit = <<>>
  /\ stale = <<>>

\* The component right after the first analysis of script "A" resolved with
\* `result`: the new scenes are in place and the sweep analyzeScript starts
\* (generateAllImages, not awaited) is suspended in its first scene.
Analysed(result) ==
  LET r == SweepFrom(NewScenes(result), NewScenes(result)) IN
  /\ scriptText = "A"
  /\ scenes = r.scenes
  /\ tasks = r.started
  /\ isAnalyzing = FALSE
  /\ selectedAspectRatio = "16:9"
  /\ selectedResolution = "2K"
  /\ chatInput = ""
  /\ chatMessages = <<Greeting>>
  /\ isChatSending = FALSE
  /\ notification = NoNotification
  /\ draggedIndex = Null
  /\ dragOverIndex = Null
  /\ projectHistory = <<>>
  /\ isHistoryOpen = FALSE
  /\ localStorage = NoBlob
  /\ uuid = 0

-----------------------------------------------------------------------------
(* What becomes of the history variables in a step *)

NoAux == UNCHANGED <<auxVars, groupVars>>

\* origin[i] follows scene i: what its prompt and image were when its
\* promptHistory was last empty.
TrackOrigin ==
  /\ origin' = [i \in DOMAIN scenes' |->
                  IF scenes'[i].promptHistory = <<>>
                    THEN <<scenes'[i].visualPrompt, scenes'[i].imageUrl>>
                    ELSE origin[i]]
  /\ UNCHANGED <<captured, steps, groupVars, stale>>

\* captured[id] is the live project state in which the snapshot with that id
\* was created, and the data the snapshot held at that moment (ids are handed
\* out as 1, 2, ...).
LiveProject ==
  [script |-> scriptText, scenes |-> scenes, aspectRatio |-> selectedAspectRatio,
   resolution |-> selectedResolution]

TrackSteps ==
  /\ steps < MaxSteps
  /\ steps' = IF progVars' # progVars THEN steps + 1 ELSE steps
  /\ captured' = IF uuid' # uuid
                 THEN Append(captured, [live |-> LiveProject, data |-> Head(projectHistory').data])
                 ELSE captured
  /\ UNCHANGED <<origin, groupVars>>

TrackCaptured == TrackSteps /\ UNCHANGED stale

-----------------------------------------------------------------------------
(* GenSpec: image generation on a freshly analysed list of GenScenes scenes:
   every interleaving of manual generate-image calls, generate-all sweeps and
   the responses of the enhancement and image services. *)

GenInit ==
  /\ \E result \in AnalysisResults : Len(result) = GenScenes /\ Analysed(result)
  /\ origin = <<>>
  /\ captured = <<>>
  /\ steps = 0
  /\ sceneGroups = <<>>
  /\ preSplit = <<>>
  /\ stale = <<>>

GenNext ==
  \/ \E i \in 1..GenScenes : generateImageForScene(i) /\ NoAux
  \/ generateAllImages /\ NoAux
  \/ \E k \in 1..MaxTasks : GenEnhanced(k) /\ NoAux
  \/ \E k \in 1..MaxTasks : GenRendered(k) /\ NoAux
  \/ \E k \in 1..MaxTasks : GenFailed(k, Undef) /\ NoAux

GenSpec == GenInit /\ [][GenNext]_vars

-----------------------------------------------------------------------------
(* SceneSpec: every per-scene operation on a one-scene list.  One async
   operation is in flight at a time; prompt edits and reverts interleave with
   it freely. *)

Quiet == tasks = <<>>

SceneInit ==
  /\ \E result \in AnalysisResults : Len(result) = 1 /\ Analysed(result)
  /\ origin = <<>>
  /\ captured = <<>>
  /\ steps = 0
  /\ sceneGroups = <<>>
  /\ preSplit = <<>>
  /\ stale = <<>>

SceneNext ==
  \/ Quiet /\ generateImageForScene(1) /\ NoAux
  \/ Quiet /\ generateAllImages /\ NoAux
  \/ GenEnhanced(1) /\ NoAux
  \/ GenRendered(1) /\ NoAux
  \/ \E message \in FailureMessages : GenFailed(1, message) /\ NoAux
  \/ Quiet /\ regenerateSceneText(1) /\ NoAux
  \/ RegenDone(1) /\ NoAux
  \/ RegenFailed(1) /\ NoAux
  \/ \E p \in TypedPrompts : updateScenePrompt(1, p) /\ NoAux
  \/ Quiet /\ enhancePromptForScene(1) /\ NoAux
  \/ EnhanceDone(1) /\ NoAux
  \/ revertToPreviousVersion(1) /\ NoAux
  \/ NotificationTimeout /\ NoAux

SceneSpec == SceneInit /\ [][SceneNext]_vars

-----------------------------------------------------------------------------
(* SeqSpec: the per-scene operations performed one after another on a
   one-scene list: an operation is invoked only when no async operation is in
   flight. *)

SeqInit ==
  /\ \E result \in AnalysisResults : Len(result) = 1 /\ Analysed(result)
  /\ origin = OriginOf(scenes)
  /\ captured = <<>>
  /\ steps = 0
  /\ sceneGroups = <<>>
  /\ preSplit = <<>>
  /\ stale = <<>>

SeqNext ==
  \/ Quiet /\ generateImageForScene(1) /\ TrackOrigin
  \/ Quiet /\ generateAllImages /\ TrackOrigin
  \/ GenEnhanced(1) /\ TrackOrigin
  \/ GenRendered(1) /\ TrackOrigin
  \/ \E message \in FailureMessages : GenFailed(1, message) /\ TrackOrigin
  \/ Quiet /\ regenerateSceneText(1) /\ TrackOrigin
  \/ RegenDone(1) /\ TrackOrigin
  \/ RegenFailed(1) /\ TrackOrigin
  \/ \E p \in TypedPrompts : Quiet /\ updateScenePrompt(1, p) /\ TrackOrigin
  \/ Quiet /\ enhancePromptForScene(1) /\ TrackOrigin
  \/ EnhanceDone(1) /\ TrackOrigin
  \/ Quiet /\ revertToPreviousVersion(1) /\ TrackOrigin
  \/ NotificationTimeout /\ TrackOrigin

SeqSpec == SeqInit /\ [][SeqNext]_vars

-----------------------------------------------------------------------------
(* Spec: the whole project from construction: script and configuration input,
   analysis and the sweep it starts, prompt edits and reverts, drag-and-drop
   reordering, snapshots, save and load. *)

Next ==
  \/ \E val \in ResolutionInputs : onResolutionChange(val) /\ TrackCaptured
  \/ \E confirmed \in BOOLEAN : clearScript(confirmed) /\ TrackCaptured
  \/ \E i \in 1..MaxScenes : generateImageForScene(i) /\ TrackCaptured
  \/ generateAllImages /\ TrackCaptured
  \/ \E i \in 1..MaxScenes : regenerateSceneText(i) /\ TrackCaptured
  \/ \E k \in 1..MaxTasks : RegenDone(k) /\ TrackCaptured
  \/ \E k \in 1..MaxTasks : RegenFailed(k) /\ TrackCaptured
  \/ \E i \in 1..MaxScenes : enhancePromptForScene(i) /\ TrackCaptured
  \/ \E k \in 1..MaxTasks : EnhanceDone(k) /\ TrackCaptured
  \/ \E i \in 0..MaxScenes - 1 : onDragOver(i) /\ TrackCaptured
  \/ NotificationTimeout /\ TrackCaptured
  \/ \E val \in ScriptInputs : onScriptInput(val) /\ TrackCaptured
  \/ \E val \in AspectRatioInputs : onAspectRatioChange(val) /\ TrackCaptured
  \/ \E outcome \in SaveOutcomes : analyzeScript(outcome) /\ TrackCaptured
  \/ \E k \in 1..MaxTasks, result \in AnalysisResults : AnalyzeDone(k, result) /\ TrackCaptured
  \/ \E k \in 1..MaxTasks : AnalyzeFailed(k) /\ TrackCaptured
  \/ \E k \in 1..MaxTasks : GenEnhanced(k) /\ TrackCaptured
  \/ \E k \in 1..MaxTasks : GenRendered(k) /\ TrackCaptured
  \/ \E k \in 1..MaxTasks : GenFailed(k, Undef) /\ TrackCaptured
  \/ \E i \in 1..MaxScenes, p \in TypedPrompts : updateScenePrompt(i, p) /\ TrackCaptured
  \/ \E i \in 1..MaxScenes : revertToPreviousVersion(i) /\ TrackCaptured
  \/ \E i \in 0..MaxScenes - 1 : onDragStart(i) /\ TrackCaptured
  \/ \E i \in 0..MaxScenes - 1 : onDrop(i) /\ TrackCaptured
  \/ onDragEnd /\ TrackCaptured
  \/ \E outcome \in SaveOutcomes : createSnapshot(outcome) /\ TrackCaptured
  \/ \E k \in 1..MaxSnap, confirmed \in BOOLEAN : restoreSnapshot(k, confirmed) /\ TrackCaptured
  \/ \E k \in 1..MaxSnap, confirmed \in BOOLEAN, outcome \in SaveOutcomes :
       deleteSnapshot(k, confirmed, outcome) /\ TrackCaptured
  \/ \E outcome \in SaveOutcomes : saveProject(outcome) /\ TrackCaptured
  \/ loadProject /\ TrackCaptured
  \/ toggleHistory /\ TrackCaptured

Spec == Init /\ [][Next]_vars

-----------------------------------------------------------------------------
(* DragSpec: drag-and-drop on an analysed list while the list is replaced
   under the drag: by re-analysis, by restoring a snapshot, by loading the
   saved project, for up to MaxSteps operations. The image services do not
   answer in these behaviours. *)

DragInit ==
  /\ \E result \in AnalysisResults : Len(result) > 0 /\ Analysed(result)
  /\ origin = <<>>
  /\ captured = <<>>
  /\ steps = 0
  /\ sceneGroups = <<>>
  /\ preSplit = <<>>
  /\ stale = <<>>

DragNext ==
  \/ \E i \in 0..MaxScenes - 1 : onDragStart(i) /\ TrackCaptured
  \/ \E i \in 0..MaxScenes - 1 : onDragOver(i) /\ TrackCaptured
  \/ \E i \in 0..MaxScenes - 1 : onDrop(i) /\ TrackCaptured
  \/ onDragEnd /\ TrackCaptured
  \/ analyzeScript("ok") /\ TrackCaptured
  \/ \E k \in 1..MaxTasks, result \in AnalysisResults : AnalyzeDone(k, result) /\ TrackCaptured
  \/ \E k \in 1..MaxTasks : AnalyzeFailed(k) /\ TrackCaptured
  \/ createSnapshot("ok") /\ TrackCaptured
  \/ \E k \in 1..MaxSnap : restoreSnapshot(k, TRUE) /\ TrackCaptured
  \/ saveProject("ok") /\ TrackCaptured
  \/ loadProject /\ TrackCaptured

DragSpec == DragInit /\ [][DragNext]_vars

-----------------------------------------------------------------------------
(* LoadSpec: the component constructed over a durable store that already
   holds something under the key: nothing, a string that is no JSON, or the
   project another session (or another version of the program) saved, with
   any of its fields missing.  The user types, configures, analyses, takes
   snapshots, saves and loads, for up to MaxSteps operations. *)

BlobFields == {"script", "scenes", "aspectRatio", "resolution", "chatHistory", "projectHistory"}

\* The projects the other session saved: with a script, and with an empty one.
StoredProjects ==
  {[script |-> script,
    scenes |-> JsonScenes(NewScenes(<<RawScene(1)>>)),
    aspectRatio |-> "1:1",
    resolution |-> "4K",
    chatHistory |-> <<Greeting, [role |-> "user", text |-> "hello"]>>,
    projectHistory |-> <<>>] : script \in {"S", ""}}

StoredBlobs ==
  {NoBlob, BadJson} \cup
  {[f \in present |-> project[f]] : project \in StoredProjects, present \in SUBSET BlobFields}

LoadInit ==
  /\ scriptText = ""
  /\ scenes = <<>>
  /\ isAnalyzing = FALSE
  /\ selectedAspectRatio = "16:9"
  /\ selectedResolution = "2K"
  /\ chatInput = ""
  /\ chatMessages = <<Greeting>>
  /\ isChatSending = FALSE
  /\ notification = NoNotification
  /\ draggedIndex = Null
  /\ dragOverIndex = Null
  /\ projectHistory = <<>>
  /\ isHistoryOpen = FALSE
  /\ localStorage \in StoredBlobs
  /\ tasks = <<>>
  /\ uuid = 0
  /\ origin = <<>>
  /\ captured = <<>>
  /\ steps = 0
  /\ sceneGroups = <<>>
  /\ preSplit = <<>>
  /\ stale = <<>>

LoadNext ==
  \/ \E val \in ScriptInputs : onScriptInput(val) /\ TrackCaptured
  \/ \E val \in AspectRatioInputs : onAspectRatioChange(val) /\ TrackCaptured
  \/ \E val \in ResolutionInputs : onResolutionChange(val) /\ TrackCaptured
  \/ analyzeScript("ok") /\ TrackCaptured
  \/ \E k \in 1..MaxTasks, result \in AnalysisResults : AnalyzeDone(k, result) /\ TrackCaptured
  \/ createSnapshot("ok") /\ TrackCaptured
  \/ \E outcome \in SaveOutcomes : saveProject(outcome) /\ TrackCaptured
  \/ loadProject /\ TrackCaptured

LoadSpec == LoadInit /\ [][LoadNext]_vars

-----------------------------------------------------------------------------
(* ChatSpec: the chat from construction, next to the operations that read or
   write the transcript or the project it is saved with: script input,
   snapshots, restore, save and load, for up to MaxSteps operations. *)

ChatNext ==
  \/ \E val \in ChatInputs : onChatInput(val) /\ TrackCaptured
  \/ sendChatMessage /\ TrackCaptured
  \/ \E k \in 1..MaxTasks, response \in ChatResponses : ChatDone(k, response) /\ TrackCaptured
  \/ \E k \in 1..MaxTasks : ChatFailed(k) /\ TrackCaptured
  \/ \E val \in ScriptInputs : onScriptInput(val) /\ TrackCaptured
  \/ \E outcome \in SaveOutcomes : createSnapshot(outcome) /\ TrackCaptured
  \/ \E k \in 1..MaxSnap : restoreSnapshot(k, TRUE) /\ TrackCaptured
  \/ \E outcome \in SaveOutcomes : saveProject(outcome) /\ TrackCaptured
  \/ loadProject /\ TrackCaptured
  \/ NotificationTimeout /\ TrackCaptured

ChatSpec == Init /\ [][ChatNext]_vars

-----------------------------------------------------------------------------
(* GroupSpec: the Reorder Engine of the grouped design (spec.md, sections 3
   and 4.1).  The component under src/ keeps one flat scene list and has no
   groups; split, merge-with-previous and the move between groups are
   modelled from the specification's contracts.  Indices are 0-based, as in
   the specification. *)

MaxGroups == 3       \* most groups a project is split into
GroupedScenes == 3   \* most scenes of a grouped project

FirstGroupName == "Sequence 01"
\* The name a split gives the new group (the derivation is not followed further).
DerivedName(name) == "Sequence 01 (cont.)"

GroupedScene(n) == [id |-> n, sceneNumber |-> n, visualPrompt |-> AnalysedPrompt]
SceneGroup(name, list) == [name |-> name, isCollapsed |-> FALSE, scenes |-> list]

\* A split that leaves the scene at the cut out of the new group.
splitDroppingCut(groups, groupIndex, sceneIndex) ==
  IF sceneIndex = 0 THEN groups
  ELSE LET group == groups[groupIndex + 1]
           kept == [group EXCEPT !.scenes = SubSeq(group.scenes, 1, sceneIndex)]
           added == SceneGroup(DerivedName(group.name),
                               SubSeq(group.scenes, sceneIndex + 2, Len(group.scenes)))
       IN  SubSeq(groups, 1, groupIndex) \o <<kept, added>>
             \o SubSeq(groups, groupIndex + 2, Len(groups))

\* Split: the original group keeps scenes [0, sceneIndex); a new group,
\* inserted immediately after, receives scenes [sceneIndex, end) and a derived
\* name.  No-op if sceneIndex is 0.
split(groups, groupIndex, sceneIndex) ==
  IF sceneIndex = 0 THEN groups
  ELSE LET group == groups[groupIndex + 1]
           kept == [group EXCEPT !.scenes = SubSeq(group.scenes, 1, sceneIndex)]
           added == SceneGroup(DerivedName(group.name),
                               SubSeq(group.scenes, sceneIndex + 1, Len(group.scenes)))
       IN  SubSeq(groups, 1, groupIndex) \o <<kept, added>>
             \o SubSeq(groups, groupIndex + 2, Len(groups))

\* Merge-with-previous: appends the current group's scenes after the previous
\* group's scenes, then removes the current group.  No-op if groupIndex is 0.
mergeWithPrevious(groups, groupIndex) ==
  IF groupIndex = 0 THEN groups
  ELSE LET previous == groups[groupIndex]
           current == groups[groupIndex + 1]
       IN  SubSeq(groups, 1, groupIndex - 1)
             \o <<[previous EXCEPT !.scenes = @ \o current.scenes]>>
             \o SubSeq(groups, groupIndex + 2, Len(groups))

\* Move: removes the scene from its source and inserts it at the destination
\* (toSceneIdx Null: append to the end of the group); a forward move within
\* one group inserts one index lower, the removal having shifted the rest.
moveScene(groups, fromGroupIdx, fromSceneIdx, toGroupIdx, toSceneIdx) ==
  LET scene == groups[fromGroupIdx + 1].scenes[fromSceneIdx + 1]
      removed == [groups EXCEPT ![fromGroupIdx + 1].scenes = SpliceOut(@, fromSceneIdx)[2]]
      target == removed[toGroupIdx + 1].scenes
      at == IF toSceneIdx = Null THEN Len(target)
            ELSE IF fromGroupIdx = toGroupIdx /\ toSceneIdx > fromSceneIdx
                   THEN toSceneIdx - 1
                   ELSE toSceneIdx
  IN  [removed EXCEPT ![toGroupIdx + 1].scenes = SpliceIn(target, at, scene)]

SplitGroup(groupIndex, sceneIndex) ==
  /\ groupIndex + 1 \in DOMAIN sceneGroups
  /\ sceneIndex + 1 \in DOMAIN sceneGroups[groupIndex + 1].scenes
  /\ Len(sceneGroups) < MaxGroups
  /\ sceneGroups' = split(sceneGroups, groupIndex, sceneIndex)
  /\ preSplit' = IF sceneIndex = 0 THEN <<>>
                 ELSE [groups |-> sceneGroups, groupIndex |-> groupIndex, merged |-> FALSE]
  /\ UNCHANGED <<progVars, auxVars>>

MergeGroup(groupIndex) ==
  /\ groupIndex + 1 \in DOMAIN sceneGroups
  /\ sceneGroups' = mergeWithPrevious(sceneGroups, groupIndex)
  /\ preSplit' = IF preSplit # <<>> /\ ~preSplit.merged /\ groupIndex = preSplit.groupIndex + 1
                   THEN [preSplit EXCEPT !.merged = TRUE]
                   ELSE <<>>
  /\ UNCHANGED <<progVars, auxVars>>

MoveScene(fromGroupIdx, fromSceneIdx, toGroupIdx, toSceneIdx) ==
  /\ fromGroupIdx + 1 \in DOMAIN sceneGroups
  /\ fromSceneIdx + 1 \in DOMAIN sceneGroups[fromGroupIdx + 1].scenes
  /\ toGroupIdx + 1 \in DOMAIN sceneGroups
  /\ toSceneIdx = Null \/ toSceneIdx + 1 \in DOMAIN sceneGroups[toGroupIdx + 1].scenes
  /\ sceneGroups' = moveScene(sceneGroups, fromGroupIdx, fromSceneIdx, toGroupIdx, toSceneIdx)
  /\ preSplit' = <<>>
  /\ UNCHANGED <<progVars, auxVars>>

GroupInit ==
  /\ Constructed
  /\ origin = <<>>
  /\ captured = <<>>
  /\ steps = 0
  /\ \E n \in 1..GroupedScenes :
       sceneGroups = <<SceneGroup(FirstGroupName, [i \in 1..n |-> GroupedScene(i)])>>
  /\ preSplit = <<>>
  /\ stale = <<>>

GroupNext ==
  \/ \E g \in 0..MaxGroups - 1, k \in 0..GroupedScenes - 1 : SplitGroup(g, k)
  \/ \E g \in 0..MaxGroups - 1 : MergeGroup(g)
  \/ \E g \in 0..MaxGroups - 1, i \in 0..GroupedScenes - 1,
        h \in 0..MaxGroups - 1, j \in (0..GroupedScenes - 1) \cup {Null} :
       MoveScene(g, i, h, j)

GroupSpec == GroupInit /\ [][GroupNext]_vars

-----------------------------------------------------------------------------
(* DupSpec: the per-scene operations on a freshly analysed list of two
   scenes that the analysis service numbered 1 and 1, or 1 and 2 (the
   response schema makes sceneNumber an integer and nothing makes it unique).
   The operations interleave freely, for up to MaxSteps steps. *)

NumberedResults ==
  {<<RawScene(1), [RawScene(n) EXCEPT !.description = "d1"]>> : n \in 1..2}

DupInit ==
  /\ \E result \in NumberedResults : Analysed(result)
  /\ origin = <<>>
  /\ captured = <<>>
  /\ steps = 0
  /\ sceneGroups = <<>>
  /\ preSplit = <<>>
  /\ stale = <<>>

DupNext ==
  \/ \E i \in 1..2 : generateImageForScene(i) /\ TrackCaptured
  \/ \E k \in 1..MaxTasks : GenEnhanced(k) /\ TrackCaptured
  \/ \E k \in 1..MaxTasks : GenRendered(k) /\ TrackCaptured
  \/ \E k \in 1..MaxTasks : GenFailed(k, Undef) /\ TrackCaptured
  \/ \E i \in 1..2 : regenerateSceneText(i) /\ TrackCaptured
  \/ \E k \in 1..MaxTasks : RegenDone(k) /\ TrackCaptured
  \/ \E k \in 1..MaxTasks : RegenFailed(k) /\ TrackCaptured
  \/ \E i \in 1..2, p \in TypedPrompts : updateScenePrompt(i, p) /\ TrackCaptured
  \/ \E i \in 1..2 : enhancePromptForScene(i) /\ TrackCaptured
  \/ \E k \in 1..MaxTasks : EnhanceDone(k) /\ TrackCaptured
  \/ \E i \in 1..2 : revertToPreviousVersion(i) /\ TrackCaptured
  \/ NotificationTimeout /\ TrackCaptured

DupSpec == DupInit /\ [][DupNext]_vars

-----------------------------------------------------------------------------
(* ReplaceSpec: the image workflow of an analysed list while the list is
   replaced under it: by re-analysis, by restoring a snapshot, by loading the
   saved project, for up to MaxSteps operations. *)

\* stale[k] tells whether the scene list was replaced after tasks[k] started.
\* A step removes at most the invocation at position `ended` (0: none) and
\* appends the invocations it starts.
TrackStale(ended, replaced) ==
  LET kept == IF ended = 0 THEN stale ELSE RemoveAt(stale, ended)
      marked == [i \in DOMAIN kept |-> kept[i] \/ replaced]
  IN  stale' = marked \o [i \in 1..(Len(tasks') - Len(kept)) |-> FALSE]

\* loadProject replaces the list when the stored project has one.
LoadsScenes == localStorage \notin {NoBlob, BadJson} /\ TruthyArray(localStorage, "scenes")

ReplaceInit ==
  /\ \E result \in AnalysisResults : Len(result) \in 1..GenScenes /\ Analysed(result)
  /\ origin = <<>>
  /\ captured = <<>>
  /\ steps = 0
  /\ sceneGroups = <<>>
  /\ preSplit = <<>>
  /\ stale = [k \in DOMAIN tasks |-> FALSE]

ReplaceNext ==
  \/ \E k \in 1..MaxTasks :
       GenEnhanced(k) /\ TrackSteps /\ TrackStale(IF Len(tasks') < Len(tasks) THEN k ELSE 0, FALSE)
  \/ \E k \in 1..MaxTasks : GenRendered(k) /\ TrackSteps /\ TrackStale(k, FALSE)
  \/ \E k \in 1..MaxTasks : GenFailed(k, Undef) /\ TrackSteps /\ TrackStale(k, FALSE)
  \/ analyzeScript("ok") /\ TrackSteps /\ TrackStale(0, TRUE)
  \/ \E k \in 1..MaxTasks, result \in AnalysisResults :
       Len(result) <= GenScenes /\ AnalyzeDone(k, result) /\ TrackSteps /\ TrackStale(k, TRUE)
  \/ \E k \in 1..MaxTasks : AnalyzeFailed(k) /\ TrackSteps /\ TrackStale(k, FALSE)
  \/ createSnapshot("ok") /\ TrackSteps /\ TrackStale(0, FALSE)
  \/ \E k \in 1..MaxSnap : restoreSnapshot(k, TRUE) /\ TrackSteps /\ TrackStale(0, TRUE)
  \/ saveProject("ok") /\ TrackSteps /\ TrackStale(0, FALSE)
  \/ loadProject /\ TrackSteps /\ TrackStale(0, LoadsScenes)

ReplaceSpec == ReplaceInit /\ [][ReplaceNext]_vars

-----------------------------------------------------------------------------
(* Claims *)

\* generate-image workflows suspended on scene number n
GenInFlight(n) ==
  {k \in DOMAIN tasks : tasks[k].kind = "gen" /\ tasks[k].scene.sceneNumber = n}

\* C1: a generate-image call on a scene whose live isGenerating flag is true is
\* rejected, so no scene ever has two generation workflows in flight.
C1_OneWorkflowPerScene ==
  \A n \in 1..GenScenes : Cardinality(GenInFlight(n)) <= 1

\* C2: a step that changes a scene's visualPrompt leaves its imageUrl undefined,
\* unless the step is revertToPreviousVersion restoring a historical image.
C2_PromptChangeClearsImage ==
  [][\A i \in DOMAIN scenes :
       (/\ i \in DOMAIN scenes'
        /\ scenes'[i].visualPrompt # scenes[i].visualPrompt
        /\ ~revertToPreviousVersion(i))
       => scenes'[i].imageUrl = NoImage]_vars

\* C3: in every reachable state, a scene's image, when set, was rendered from
\* the scene's current visualPrompt.
C3_ImageNeverStale ==
  \A i \in DOMAIN scenes :
    scenes[i].imageUrl # NoImage => scenes[i].imageUrl = Img(scenes[i].visualPrompt)

\* The scene after revertToPreviousVersion was called on it n times
RECURSIVE RevertedTimes(_, _)
RevertedTimes(scene, n) ==
  IF n = 0 THEN scene ELSE RevertedTimes(Reverted(<<scene>>, scene)[1], n - 1)

\* C4: whatever prompt-mutating operations were performed on a scene since its
\* promptHistory was empty, reverting once per history entry removes the
\* entries last-in first-out, ends with an empty promptHistory and with the
\* visualPrompt and imageUrl the scene had before the first of those
\* operations; one more revert changes nothing.
C4_HistoryLIFO ==
  \A i \in DOMAIN scenes :
    LET scene == scenes[i]
        n == Len(scene.promptHistory)
        back == RevertedTimes(scene, n)
    IN  /\ \A m \in 1..n :
             /\ RevertedTimes(scene, m).promptHistory = SubSeq(scene.promptHistory, 1, n - m)
             /\ RevertedTimes(scene, m).visualPrompt = scene.promptHistory[n - m + 1].prompt
             /\ RevertedTimes(scene, m).imageUrl = scene.promptHistory[n - m + 1].imageUrl
        /\ back.promptHistory = <<>>
        /\ <<back.visualPrompt, back.imageUrl>> = origin[i]
        /\ RevertedTimes(back, 1) = back

\* C4 witness: reverts have emptied a scene's history again and brought back
\* an image (only a revert leaves an image with progress 0 and no status).
C4_Witness ==
  \E i \in DOMAIN scenes :
    /\ scenes[i].promptHistory = <<>>
    /\ scenes[i].statusMessage = Undef
    /\ scenes[i].progress = 0
    /\ scenes[i].imageUrl # NoImage

SnapshotsOf(history) == {history[k] : k \in DOMAIN history}
StoredHistory == IF localStorage = NoBlob THEN <<>> ELSE localStorage.projectHistory
AllSnapshots == SnapshotsOf(projectHistory) \cup SnapshotsOf(StoredHistory)

\* C5: whatever happened to the live state since a snapshot was created, a
\* confirmed restore of it sets the live script, scene list, aspect ratio and
\* resolution to the values the snapshot captured at creation (which are the
\* live values of that moment, for a list of scene objects), closes the
\* history view, and leaves the snapshot history and the chat as they are.
C5_RestoreReturnsCaptured ==
  [][\A k \in 1..MaxSnap :
       restoreSnapshot(k, TRUE) =>
         LET was == captured[projectHistory[k].id] IN
         /\ scriptText' = was.data.script
         /\ scenes' = was.data.scenes
         /\ selectedAspectRatio' = was.data.aspectRatio
         /\ selectedResolution' = was.data.resolution
         /\ scriptText' = was.live.script
         /\ ~HasHole(was.live.scenes) => scenes' = was.live.scenes
         /\ selectedAspectRatio' = was.live.aspectRatio
         /\ selectedResolution' = was.live.resolution
         /\ isHistoryOpen' = FALSE
         /\ projectHistory' = projectHistory
         /\ chatMessages' = chatMessages]_vars

\* C5 witness: an auto-save snapshot (taken of a scene list that analysis then
\* cleared) has been restored: the cleared list is live again.
C5_Witness ==
  /\ notification = "Restored version"
  /\ scenes # <<>>
  /\ ~isHistoryOpen
  /\ \E k \in DOMAIN projectHistory :
       /\ projectHistory[k].name = AutoSaveName
       /\ projectHistory[k].data.scenes = scenes

ByCreate ==
  /\ \E outcome \in SaveOutcomes : createSnapshot(outcome) \/ analyzeScript(outcome)
  /\ projectHistory' # <<>>
  /\ Tail(projectHistory') = projectHistory
  /\ \A a \in SnapshotsOf(projectHistory) : a.id # Head(projectHistory').id

\* The snapshot history loses the snapshot of one id, by a confirmed deleteSnapshot.
ByDelete ==
  \E k \in DOMAIN projectHistory :
    /\ \E outcome \in SaveOutcomes : deleteSnapshot(k, TRUE, outcome)
    /\ LET Kept(a) == a.id # projectHistory[k].id
       IN  projectHistory' = SelectSeq(projectHistory, Kept)

\* The snapshot history is replaced by the one of the saved project, by loadProject.
ByLoad ==
  /\ loadProject
  /\ localStorage # NoBlob
  /\ projectHistory' = localStorage.projectHistory

\* C7 (as stated): the snapshot history changes only by createSnapshot putting
\* one new snapshot at the head, or by a confirmed deleteSnapshot removing the
\* snapshot of the given id; no other operation, load included, changes it.
C7_OnlyCreateAndDelete ==
  [][projectHistory' # projectHistory => ByCreate \/ ByDelete]_vars

\* C7 (amended): the snapshot history changes only by createSnapshot putting
\* one new snapshot at the head, by a confirmed deleteSnapshot removing the
\* snapshot of the given id, or by loadProject replacing it with the history of
\* the saved project; restore, analysis completion, save and every other
\* operation leave it alone.
C7_OnlyCreateDeleteLoad ==
  [][projectHistory' # projectHistory => ByCreate \/ ByDelete \/ ByLoad]_vars

\* C7 witness: a project was loaded and the history in memory is the saved
\* one, which lacks a snapshot that has been created (its save failed, or it
\* was deleted).
C7_Witness ==
  /\ notification = "Project loaded successfully"
  /\ projectHistory = StoredHistory
  /\ Len(projectHistory) = 1
  /\ uuid = 2

C9_ForwardMoveIndex ==
  [][\A j \in 0..MaxScenes - 1 :
       (/\ onDrop(j)
        /\ draggedIndex # Null
        /\ draggedIndex < j
        /\ draggedIndex + 1 \in DOMAIN scenes) =>
         LET i == draggedIndex IN
         /\ Len(scenes') = Len(scenes)
         /\ scenes'[j] = scenes[i + 1]
         /\ \A m \in i + 2 .. j : scenes'[m - 1] = scenes[m]
         /\ \A m \in DOMAIN scenes : (m < i + 1 \/ m > j + 1) => scenes'[m] = scenes[m]]_vars

\* C10: every drop that reorders leaves a permutation of the list before the
\* drop in which one scene has moved and the others keep their order, also
\* when the list was replaced between drag start and drop.
C10_DropIsPermutation ==
  [][\A j \in 0..MaxScenes - 1 :
       (onDrop(j) /\ draggedIndex # Null /\ draggedIndex # j) =>
         \E from \in DOMAIN scenes, to \in DOMAIN scenes' :
           /\ scenes'[to] = scenes[from]
           /\ RemoveAt(scenes', to) = RemoveAt(scenes, from)]_vars

\* the per-scene operation flags that are set on a scene
BusyFlags(scene) ==
  {f \in {"isGenerating", "isRegeneratingText", "isEnhancingPrompt"} : scene[f]}

\* C11: in every reachable state, at most one of isGenerating,
\* isRegeneratingText and isEnhancingPrompt is true of a scene.
C11_OneOperationPerScene ==
  \A i \in DOMAIN scenes :
    ~IsHole(scenes[i]) => Cardinality(BusyFlags(scenes[i])) <= 1

\* the generate-image workflows in flight that a generate-all sweep is awaiting
SweepTasks == {k \in DOMAIN tasks : tasks[k].kind = "gen" /\ tasks[k].sweep}

\* the invocations a step has started (the tasks list grows at its end)
StartedBy(k) == SubSeq(tasks', Len(tasks), Len(tasks'))

\* C12: a generate-all sweep processes its scenes strictly one after another in
\* list order: a step puts at most one more sweep workflow in flight, and only
\* the step that starts a new sweep does; when a workflow of a sweep ends, the
\* sweep starts at most one workflow, on a scene further down its list, and
\* keeps the scenes after that one for later.  So no sweep ever has two of its
\* workflows in flight.
C12_SweepSequential ==
  [][/\ Cardinality(SweepTasks') <= Cardinality(SweepTasks) + 1
     /\ Cardinality(SweepTasks') > Cardinality(SweepTasks) => generateAllImages
     /\ \A k \in SweepTasks :
          (GenRendered(k) \/ \E message \in FailureMessages : GenFailed(k, message)) =>
            \/ StartedBy(k) = <<>>
            \/ /\ Len(StartedBy(k)) = 1
               /\ StartedBy(k)[1].sweep
               /\ \E p \in DOMAIN tasks[k].rest :
                    /\ StartedBy(k)[1].scene = tasks[k].rest[p]
                    /\ StartedBy(k)[1].rest = SubSeq(tasks[k].rest, p + 1, Len(tasks[k].rest))]_vars

\* C12 witness: a sweep has gone through scene 1, whose workflow failed, and is
\* now awaiting the workflow of scene 2.
C12_Witness ==
  /\ Len(scenes) >= 2
  /\ scenes[1].statusMessage = "Failed"
  /\ scenes[1].imageUrl = NoImage
  /\ ~scenes[1].isGenerating
  /\ \E k \in SweepTasks : tasks[k].scene.sceneNumber = 2 /\ tasks[k].rest = <<>>

\* C13: when its turn comes in a generate-all sweep, a scene's workflow is
\* started only if the scene, as it is in the live list at that moment, has no
\* image and is not generating: a scene that got an image or began generating
\* after the sweep started is skipped.
C13_SweepReadsLiveState ==
  [][\A k \in SweepTasks :
       (/\ GenRendered(k) \/ \E message \in FailureMessages : GenFailed(k, message)
        /\ StartedBy(k) # <<>>) =>
         \A i \in DOMAIN scenes :
           scenes[i].sceneNumber = StartedBy(k)[1].scene.sceneNumber =>
             scenes[i].imageUrl = NoImage /\ ~scenes[i].isGenerating]_vars

\* the scenes of the live list a workflow's completion writes to
ScenesOf(t) ==
  {i \in DOMAIN scenes : ~IsHole(scenes[i]) /\ scenes[i].sceneNumber = t.scene.sceneNumber}

FailureTexts ==
  {"Usage limit exceeded. Please wait a moment.",
   "Generation blocked by safety settings. Try a different prompt.",
   "Connection interrupted. Please retry."}

\* C14 (as stated): a generate-image workflow ends in one of two states of its
\* scene: success (not generating, the returned image, progress 100, status
\* cleared) or failure (not generating, errorMessage set, imageUrl unset).
C14_TwoFinalStates ==
  [][\A k \in DOMAIN tasks :
       /\ GenRendered(k) =>
            \A i \in ScenesOf(tasks[k]) :
              /\ ~scenes'[i].isGenerating
              /\ scenes'[i].imageUrl = Img(tasks[k].enhanced)
              /\ scenes'[i].progress = 100
              /\ scenes'[i].statusMessage = Undef
       /\ \A message \in FailureMessages :
            GenFailed(k, message) =>
              \A i \in ScenesOf(tasks[k]) :
                /\ ~scenes'[i].isGenerating
                /\ scenes'[i].errorMessage # Undef
                /\ scenes'[i].imageUrl = NoImage]_vars

\* C14 (amended): a generate-image workflow ends in one of two states of its
\* scene: success (not generating, the returned image, progress 100, status
\* cleared) or failure (not generating, status "Failed", progress 0,
\* errorMessage set, and imageUrl as it was before the failure: unset only if
\* the scene had no image).
C14_TwoFinalStatesKeepImage ==
  [][\A k \in DOMAIN tasks :
       /\ GenRendered(k) =>
            \A i \in ScenesOf(tasks[k]) :
              /\ ~scenes'[i].isGenerating
              /\ scenes'[i].imageUrl = Img(tasks[k].enhanced)
              /\ scenes'[i].progress = 100
              /\ scenes'[i].statusMessage = Undef
       /\ \A message \in FailureMessages :
            GenFailed(k, message) =>
              \A i \in ScenesOf(tasks[k]) :
                /\ ~scenes'[i].isGenerating
                /\ scenes'[i].statusMessage = "Failed"
                /\ scenes'[i].progress = 0
                /\ scenes'[i].errorMessage \in FailureTexts
                /\ scenes'[i].imageUrl = scenes[i].imageUrl]_vars

\* C14 witness: a workflow has failed on a scene that had an image, and the
\* image is still there.
C14_Witness ==
  \E i \in DOMAIN scenes :
    /\ scenes[i].statusMessage = "Failed"
    /\ scenes[i].progress = 0
    /\ ~scenes[i].isGenerating
    /\ scenes[i].errorMessage \in FailureTexts
    /\ scenes[i].imageUrl # NoImage

\* the step of workflow k in which enhancePrompt returns after its call failed
EnhancementFell(k) ==
  /\ GenEnhanced(k)
  /\ k \in DOMAIN tasks'
  /\ tasks'[k].kind = "gen" /\ tasks'[k].pc = "render"
  /\ tasks'[k].enhanced = enhancePrompt(tasks[k].scene.visualPrompt, ServiceError)

Contains(message, sub) == message # Undef /\ Includes(message, sub)

\* C16: the errorMessage set when the image generation fails depends on the
\* failure message alone: the rate-limit text if the message contains "429"
\* (also when it contains "safety" as well), else the safety-block text if it
\* contains "safety", else the connection-interrupted text, which is also the
\* text for a failure without a message.
C16_ErrorMessageClassified ==
  [][\A k \in DOMAIN tasks, message \in FailureMessages :
       GenFailed(k, message) =>
         \A i \in ScenesOf(tasks[k]) :
           /\ Contains(message, "429") =>
                scenes'[i].errorMessage = "Usage limit exceeded. Please wait a moment."
           /\ ~Contains(message, "429") /\ Contains(message, "safety") =>
                scenes'[i].errorMessage =
                  "Generation blocked by safety settings. Try a different prompt."
           /\ ~Contains(message, "429") /\ ~Contains(message, "safety") =>
                scenes'[i].errorMessage = "Connection interrupted. Please retry."]_vars

\* C16 witness: an image generation has failed and its scene shows the
\* rate-limit text.
C16_Witness ==
  \E i \in DOMAIN scenes :
    /\ scenes[i].statusMessage = "Failed"
    /\ scenes[i].errorMessage = "Usage limit exceeded. Please wait a moment."

\* a step in which the user declines the confirmation of clearScript,
\* restoreSnapshot or deleteSnapshot
Declined ==
  \/ clearScript(FALSE)
  \/ \E k \in 1..MaxSnap : restoreSnapshot(k, FALSE)
  \/ \E k \in 1..MaxSnap, outcome \in SaveOutcomes : deleteSnapshot(k, FALSE, outcome)

\* C17: clearing the script, deleting a snapshot and restoring a snapshot
\* change state only after the user confirms: a declined confirmation leaves
\* the script, the scene list, aspect ratio, resolution, the snapshot history,
\* the history-view flag and the durable store as they were.
C17_DeclinedChangesNothing ==
  [][Declined =>
       UNCHANGED <<scriptText, scenes, selectedAspectRatio, selectedResolution,
                   projectHistory, isHistoryOpen, localStorage>>]_vars

\* C17 witness: a script is typed and the history view is open on a snapshot
\* that differs from the live state, so each of the three confirmations can be
\* put to the user and declined.
C17_Witness ==
  /\ scriptText # ""
  /\ isHistoryOpen
  /\ projectHistory # <<>>
  /\ Head(projectHistory).data.script # scriptText

\* what a confirmed deleteSnapshot of the snapshot at position k does to the
\* history and to the live state
DeletesOnly(k) ==
  LET Kept(a) == a.id # projectHistory[k].id IN
  /\ projectHistory' = SelectSeq(projectHistory, Kept)
  /\ Len(projectHistory') = Len(projectHistory) - 1
  /\ UNCHANGED <<scriptText, scenes, selectedAspectRatio, selectedResolution, chatMessages>>

\* C18 (as stated): a confirmed deleteSnapshot removes exactly the snapshot
\* with the id, keeps the others in order, leaves script, scenes, aspect ratio,
\* resolution and chat unchanged, and afterwards the history in the durable
\* store equals the history in memory.
C18_DeleteIsPersisted ==
  [][\A k \in 1..MaxSnap, outcome \in SaveOutcomes :
       deleteSnapshot(k, TRUE, outcome) =>
         /\ DeletesOnly(k)
         /\ localStorage' # NoBlob
         /\ localStorage'.projectHistory = projectHistory']_vars

\* C18 (amended): a confirmed deleteSnapshot removes exactly the snapshot with
\* the id, keeps the others in order, leaves script, scenes, aspect ratio,
\* resolution and chat unchanged, and saves the project: when the write to the
\* durable store succeeds, the stored history equals the history in memory;
\* when it fails, the store keeps what it held and the failure is notified.
C18_DeleteIsSaved ==
  [][\A k \in 1..MaxSnap, outcome \in SaveOutcomes :
       deleteSnapshot(k, TRUE, outcome) =>
         /\ DeletesOnly(k)
         /\ outcome = "ok" =>
              /\ localStorage' # NoBlob
              /\ localStorage'.projectHistory = projectHistory'
              /\ notification' = "Project saved successfully"
         /\ outcome # "ok" =>
              /\ localStorage' = localStorage
              /\ notification' \in {"Error: Project is too large to save (image limit).",
                                    "Failed to save project."}]_vars

\* C18 witness: two snapshots were created and the newer one deleted: the
\* older one is the whole history, in memory and in the store.
C18_Witness ==
  /\ steps = 3
  /\ uuid = 2
  /\ Len(projectHistory) = 1
  /\ Head(projectHistory).id = 1
  /\ notification = "Project saved successfully"
  /\ StoredHistory = projectHistory

\* C19: loadProject leaves script, scenes, aspect ratio, resolution, chat
\* transcript and snapshot history as they are, and only notifies, when the
\* store holds nothing under the key ("No saved project found.") and when what
\* it holds is no valid JSON ("Failed to load project data.").
C19_NothingLoadedNothingChanged ==
  [][(loadProject /\ localStorage \in {NoBlob, BadJson}) =>
       /\ UNCHANGED <<scriptText, scenes, selectedAspectRatio, selectedResolution,
                      chatMessages, projectHistory>>
       /\ localStorage = NoBlob => notification' = "No saved project found."
       /\ localStorage = BadJson => notification' = "Failed to load project data."]_vars

\* C19 witness: a load has failed on an unreadable blob, and the script and
\* the analysed scenes of the session are still there.
C19_Witness ==
  /\ notification = "Failed to load project data."
  /\ localStorage = BadJson
  /\ scriptText # ""
  /\ scenes # <<>>

\* the value of a field of the blob, or the default when the blob lacks it
FieldOr(data, field, default) == IF field \in DOMAIN data THEN data[field] ELSE default

\* C20: loadProject of a stored project with any of its fields missing does
\* not fail, sets each field the blob has from the blob, and each field the
\* blob lacks takes its default value (the value of a new component).
C20_AbsentFieldsTakeDefaults ==
  [][(loadProject /\ localStorage \notin {NoBlob, BadJson}) =>
       /\ notification' = "Project loaded successfully"
       /\ scriptText' = FieldOr(localStorage, "script", "")
       /\ scenes' = FieldOr(localStorage, "scenes", <<>>)
       /\ selectedAspectRatio' = FieldOr(localStorage, "aspectRatio", "16:9")
       /\ selectedResolution' = FieldOr(localStorage, "resolution", "2K")
       /\ chatMessages' = FieldOr(localStorage, "chatHistory", <<Greeting>>)
       /\ projectHistory' = FieldOr(localStorage, "projectHistory", <<>>)]_vars

\* a step that runs saveProject with the given outcome of the write: the
\* user's save, or the save at the end of createSnapshot (the user's, or the
\* auto-save of analyzeScript) and of a confirmed deleteSnapshot
Saves(outcome) ==
  \/ saveProject(outcome)
  \/ createSnapshot(outcome)
  \/ analyzeScript(outcome) /\ scriptText # "" /\ Len(scenes) > 0
  \/ \E k \in 1..MaxSnap : deleteSnapshot(k, TRUE, outcome)

\* C21: a failing write to the durable store changes nothing: the store and
\* the live script, aspect ratio, resolution and chat are as before (and, when
\* the user saved, scenes and snapshot history too); a quota failure shows the
\* quota notification, any other failure the generic one, and the success
\* notification is shown exactly when the write succeeded.  The same holds
\* for the save that createSnapshot and deleteSnapshot end with.
C21_FailedSaveOnlyNotifies ==
  [][\A outcome \in SaveOutcomes :
       Saves(outcome) =>
         /\ (notification' = "Project saved successfully") <=> (outcome = "ok")
         /\ outcome = "QuotaExceededError" =>
              notification' = "Error: Project is too large to save (image limit)."
         /\ outcome \notin {"ok", "QuotaExceededError"} =>
              notification' = "Failed to save project."
         /\ outcome # "ok" =>
              /\ localStorage' = localStorage
              /\ UNCHANGED <<scriptText, selectedAspectRatio, selectedResolution, chatMessages>>
              /\ saveProject(outcome) => UNCHANGED <<scenes, projectHistory>>]_vars

\* C21 witness: the save of a createSnapshot failed on the quota: the snapshot
\* is in the history in memory, the store is still empty, and the quota
\* notification is shown.
C21_Witness ==
  /\ notification = "Error: Project is too large to save (image limit)."
  /\ projectHistory # <<>>
  /\ localStorage = NoBlob

\* what the failure of the analysis call in flight as task k does, but for the
\* scene list
FailureOnlyNotifies(k) ==
  /\ isAnalyzing' = FALSE
  /\ notification' = "Failed to analyze script. Please check your API key or try again."
  /\ tasks' = RemoveAt(tasks, k)
  /\ UNCHANGED <<scriptText, selectedAspectRatio, selectedResolution, chatMessages,
                 projectHistory, localStorage>>

\* C22 (as stated): when the analysis call fails, the failure is only
\* notified: isAnalyzing is false again, the scene list is empty, no generation
\* is started, and script, aspect ratio, resolution, chat and the stored
\* snapshots are unchanged.
C22_AnalysisFailureLeavesEmptyList ==
  [][\A k \in 1..MaxTasks :
       AnalyzeFailed(k) => FailureOnlyNotifies(k) /\ scenes' = <<>>]_vars

\* C22 (amended): when the analysis call fails, the failure is only notified:
\* isAnalyzing is false again, the scene list is left as it is at that moment
\* (empty as analyzeScript cleared it, unless the list was replaced while the
\* call was in flight), no generation is started, and script, aspect ratio,
\* resolution, chat and the stored snapshots are unchanged.
C22_AnalysisFailureLeavesList ==
  [][\A k \in 1..MaxTasks :
       AnalyzeFailed(k) => FailureOnlyNotifies(k) /\ scenes' = scenes]_vars

\* C22 witness: a re-analysis has failed: the list it cleared is empty, the
\* auto-save taken of it is in the history, and the failure is notified.
C22_Witness ==
  /\ notification = "Failed to analyze script. Please check your API key or try again."
  /\ ~isAnalyzing
  /\ scenes = <<>>
  /\ \A k \in DOMAIN tasks : tasks[k].kind # "analyze"
  /\ projectHistory # <<>>
  /\ Head(projectHistory).name = AutoSaveName

\* the chat requests in flight
ChatInFlight == {k \in DOMAIN tasks : tasks[k].kind = "chat"}

\* C23: at most one chat request is in flight at any time, and isChatSending
\* is true exactly while one is: it is false again after every request,
\* answered or failed.  A sendChatMessage while isChatSending is true, or with
\* blank input, appends nothing to the transcript and sends nothing.
C23_OneChatRequest ==
  /\ [](Cardinality(ChatInFlight) <= 1 /\ (isChatSending <=> ChatInFlight # {}))
  /\ [][(sendChatMessage /\ (isChatSending \/ Trim(chatInput) = "")) =>
          UNCHANGED <<chatMessages, chatInput, isChatSending, tasks>>]_vars

\* C23 witness: a request failed, its error message closes the transcript,
\* and the chat is ready for the next request, already typed.
C23_Witness ==
  /\ ~isChatSending
  /\ ChatInFlight = {}
  /\ Len(chatMessages) >= 3
  /\ Last(chatMessages).role = "model"
  /\ chatMessages[Len(chatMessages) - 1].role = "user"
  /\ Trim(chatInput) # ""

\* the transcript gained exactly one message at its end
Appended ==
  /\ Len(chatMessages') = Len(chatMessages) + 1
  /\ SubSeq(chatMessages', 1, Len(chatMessages)) = chatMessages

\* C24 (as stated): the chat transcript is append-only: for every operation,
\* the transcript before it is a prefix of the transcript after it.
C24_TranscriptAppendOnly ==
  [][/\ Len(chatMessages') >= Len(chatMessages)
     /\ SubSeq(chatMessages', 1, Len(chatMessages)) = chatMessages]_vars

\* C24 (amended): the chat transcript changes only by sendChatMessage
\* appending the user's message, by the answer or the error message of the
\* request being appended, and by loadProject replacing the transcript with
\* the one of the saved project; every other operation leaves it alone.
C24_TranscriptAppendOrLoad ==
  [][chatMessages' # chatMessages =>
       \/ /\ Appended
          /\ \/ sendChatMessage
             \/ \E k \in 1..MaxTasks : ChatFailed(k)
             \/ \E k \in 1..MaxTasks, response \in ChatResponses : ChatDone(k, response)
       \/ /\ loadProject
          /\ "chatHistory" \in DOMAIN localStorage
          /\ chatMessages' = localStorage.chatHistory]_vars

\* C24 witness: a project saved before the user's message was loaded while
\* the request was in flight: the transcript is the saved one, the greeting
\* alone, and the user's message is gone.
C24_Witness ==
  /\ isChatSending
  /\ notification = "Project loaded successfully"
  /\ chatMessages = <<Greeting>>

\* C25: drag state never dangles: after every drop and every drag end the
\* dragged index and the hovered index are both null, whether or not the drop
\* reordered, and in every reachable state the hovered index is non-null only
\* while the dragged index is non-null.
C25_DragStateNeverDangles ==
  /\ [](dragOverIndex # Null => draggedIndex # Null)
  /\ [][((\E index \in 0..MaxScenes - 1 : onDrop(index)) \/ onDragEnd) =>
          draggedIndex' = Null /\ dragOverIndex' = Null]_vars

\* C25 witness: a drop onto a hovered scene has reordered the list and left
\* both indices null.
C25_Witness ==
  /\ notification = "Scene reordered"
  /\ draggedIndex = Null
  /\ dragOverIndex = Null

\* C26: every scene carries a unique id assigned at creation, which no
\* reorder regenerates, changes or reuses: in every reachable state each
\* scene object of the list has an id field and no two scenes share an id.
C26_ScenesCarryUniqueIds ==
  \A i \in DOMAIN scenes :
    ~IsHole(scenes[i]) =>
      /\ "id" \in DOMAIN scenes[i]
      /\ \A j \in DOMAIN scenes \ {i} :
           (~IsHole(scenes[j]) /\ "id" \in DOMAIN scenes[j]) => scenes[j].id # scenes[i].id

\* C27: splitting a group at index k (k > 0) and then merging the resulting
\* new group back into the original with merge-with-previous yields the
\* groups as they were before the split: the same number of groups, and in
\* every group the same scenes in the same order.
C27_SplitThenMergeRestores ==
  (preSplit # <<>> /\ preSplit.merged) =>
    /\ Len(sceneGroups) = Len(preSplit.groups)
    /\ \A g \in DOMAIN sceneGroups : sceneGroups[g].scenes = preSplit.groups[g].scenes

\* C27 witness: a group of three scenes was split at index 1 and the new
\* group has been merged back.
C27_Witness ==
  /\ preSplit # <<>>
  /\ preSplit.merged
  /\ \E g \in DOMAIN sceneGroups :
       Len(sceneGroups[g].scenes) = GroupedScenes /\ preSplit.groupIndex = g - 1

\* C28: loading a legacy payload, with a flat scenes list and no sceneGroups,
\* brings in all its scenes in their original order, each scene receiving a
\* fresh id if it had none (the flat list of the component standing for the
\* one synthesized group): after the load the list has the payload's length,
\* every scene carries an id, no two scenes share one, and apart from the id
\* every scene is the stored one.
C28_LegacyLoadAssignsIds ==
  [][(/\ loadProject
      /\ localStorage \notin {NoBlob, BadJson}
      /\ "sceneGroups" \notin DOMAIN localStorage
      /\ TruthyArray(localStorage, "scenes"))
     => /\ Len(scenes') = Len(localStorage.scenes)
        /\ \A i \in DOMAIN scenes' :
             /\ "id" \in DOMAIN scenes'[i]
             /\ \A f \in DOMAIN localStorage.scenes[i] :
                  f \in DOMAIN scenes'[i] /\ scenes'[i][f] = localStorage.scenes[i][f]
             /\ \A j \in DOMAIN scenes' \ {i} :
                  "id" \in DOMAIN scenes'[j] => scenes'[j].id # scenes'[i].id]_vars

\* the scenes a step changes
ChangedScenes == {j \in DOMAIN scenes : scenes'[j] # scenes[j]}

\* a per-scene operation invoked on the scene at index i of the list
InvokedOn(i) ==
  \/ generateImageForScene(i)
  \/ regenerateSceneText(i)
  \/ enhancePromptForScene(i)
  \/ \E p \in TypedPrompts : updateScenePrompt(i, p)
  \/ revertToPreviousVersion(i)

\* the completion of an operation that was invoked on one scene (a sweep's
\* workflow goes on to start the next scene and is left out)
CompletionOfOne ==
  \E k \in DOMAIN tasks :
    \/ tasks[k].kind = "gen" /\ ~tasks[k].sweep
         /\ (GenEnhanced(k) \/ GenRendered(k) \/ GenFailed(k, Undef))
    \/ RegenDone(k) \/ RegenFailed(k) \/ EnhanceDone(k)

\* C29: sceneNumber is never used as a lookup key: a per-scene operation
\* invoked on a scene changes no other scene of the list, and the completion
\* of such an operation changes at most one scene, also when the analysis
\* service returned two scenes with the same sceneNumber.
C29_UpdateTouchesOneScene ==
  [][/\ \A i \in DOMAIN scenes : InvokedOn(i) => ChangedScenes \subseteq {i}
     /\ CompletionOfOne => Cardinality(ChangedScenes) <= 1]_vars

\* the completion (success or failure) of the image workflow suspended as tasks[k]
GenCompletion(k) == GenEnhanced(k) \/ GenRendered(k) \/ GenFailed(k, Undef)

\* C30: the completion of an in-flight per-scene operation updates only the
\* scene instance on which it was started: when the scene list was replaced
\* after the operation started (re-analysis, snapshot restore, project load),
\* its completion leaves every scene of the new list as it is.
C30_StaleCompletionWritesNothing ==
  [][\A k \in DOMAIN tasks : (stale[k] /\ GenCompletion(k)) => scenes' = scenes]_vars

\* a step of a per-scene operation of SceneSpec other than revertToPreviousVersion
NonRevertStep ==
  \/ generateImageForScene(1) \/ generateAllImages
  \/ GenEnhanced(1) \/ GenRendered(1)
  \/ \E message \in FailureMessages : GenFailed(1, message)
  \/ regenerateSceneText(1) \/ RegenDone(1) \/ RegenFailed(1)
  \/ \E p \in TypedPrompts : updateScenePrompt(1, p)
  \/ enhancePromptForScene(1) \/ EnhanceDone(1)

\* C31: promptHistory is append-only except for revert: every step of an
\* operation other than revertToPreviousVersion leaves each scene's
\* promptHistory as it is or appends one entry to it, and the appended entry
\* is the scene's visualPrompt and imageUrl as they were right before the
\* step, under every interleaving of edits, reverts and in-flight operations.
C31_HistoryAppendOnly ==
  [][NonRevertStep =>
       \A i \in DOMAIN scenes :
         \/ scenes'[i].promptHistory = scenes[i].promptHistory
         \/ scenes'[i].promptHistory =
              Append(scenes[i].promptHistory, HistoryItem(scenes[i]))]_vars

\* the step in which an enhancement answer is handled: by the stand-alone
\* enhancement, or by the enhancement step of generate-image
EnhancementHandled == EnhanceDone(1) \/ GenEnhanced(1)

\* C32: an enhancement that returns the scene's current prompt leaves
\* visualPrompt and promptHistory unchanged; one that returns a different
\* prompt makes it the visualPrompt and appends exactly one entry, the prompt
\* and image the scene had before: a step that handles an enhancement answer
\* either keeps prompt and history or changes the prompt and appends the
\* entry of the scene as it was.
C32_EnhancementPushesOnChange ==
  [][EnhancementHandled =>
       \/ /\ scenes'[1].visualPrompt = scenes[1].visualPrompt
          /\ scenes'[1].promptHistory = scenes[1].promptHistory
       \/ /\ scenes'[1].visualPrompt # scenes[1].visualPrompt
          /\ scenes'[1].promptHistory =
               Append(scenes[1].promptHistory, HistoryItem(scenes[1]))]_vars

\* an operation of the kind is suspended on a scene with the number
InFlightOn(kind, sceneNumber) ==
  \E k \in DOMAIN tasks :
    tasks[k].kind = kind /\ tasks[k].scene.sceneNumber = sceneNumber

\* C33: a scene whose isGenerating, isRegeneratingText or isEnhancingPrompt
\* flag is true has the corresponding operation in flight (whose completion
\* clears the flag); no sequence of operations, snapshots, saves, restores
\* and loads included, leaves a scene marked busy with nothing in flight, to
\* be rejected by the re-entrancy guards for good.
C33_BusyFlagHasOperationInFlight ==
  \A i \in DOMAIN scenes :
    ~IsHole(scenes[i]) =>
      /\ scenes[i].isGenerating => InFlightOn("gen", scenes[i].sceneNumber)
      /\ scenes[i].isRegeneratingText => InFlightOn("regen", scenes[i].sceneNumber)
      /\ scenes[i].isEnhancingPrompt => InFlightOn("enhance", scenes[i].sceneNumber)

\* the fields of the live state that saveProject writes: script, scene list,
\* aspect ratio, resolution, chat transcript, snapshot history
LiveBundle ==
  [script |-> scriptText, scenes |-> scenes, aspectRatio |-> selectedAspectRatio,
   resolution |-> selectedResolution, chatHistory |-> chatMessages,
   projectHistory |-> projectHistory]

\* C34: save followed by load is a round trip: a successful saveProject
\* stores the live script, scene list, aspect ratio, resolution, chat
\* transcript and snapshot history, and whatever was edited since, a
\* loadProject of the stored project makes each of them equal to the stored
\* value again, also when the saved script, scene list or history is empty.
C34_SaveLoadRoundTrip ==
  [][/\ saveProject("ok") => \A f \in BlobFields : localStorage'[f] = LiveBundle[f]
     /\ (loadProject /\ localStorage \notin {NoBlob, BadJson}) =>
          \A f \in BlobFields : LiveBundle'[f] = localStorage[f]]_vars

\* the scene of the live list with the number has no image and is not generating
AwaitsImage(sceneNumber) ==
  \E i \in DOMAIN scenes :
    /\ ~IsHole(scenes[i])
    /\ scenes[i].sceneNumber = sceneNumber
    /\ scenes[i].imageUrl = NoImage
    /\ ~scenes[i].isGenerating

\* C35: a generate-all sweep attempts each scene of its list at most once
\* (when one of its workflows ends, it starts at most one workflow, with
\* fewer scenes left to do), and neither a failed nor a successful generation
\* stops it: when a workflow of the sweep ends and the next scene of its list
\* lacks an image (and is not being generated), the sweep attempts that scene.
C35_SweepAttemptsEveryScene ==
  [][\A k \in SweepTasks :
       (GenRendered(k) \/ \E message \in FailureMessages : GenFailed(k, message)) =>
         /\ Len(StartedBy(k)) <= 1
         /\ \A j \in DOMAIN StartedBy(k) :
              Len(StartedBy(k)[j].rest) < Len(tasks[k].rest)
         /\ (tasks[k].rest # <<>> /\ AwaitsImage(Head(tasks[k].rest).sceneNumber)) =>
              StartedBy(k) = <<GenTask(Head(tasks[k].rest), "enhance", "", TRUE,
                                       Tail(tasks[k].rest))>>]_vars

====
